---- MODULE Spec2Model ----
(***************************************************************************)
(* Engine::Renderer (src/Engine/src/Renderer.cpp): the frame-slot ring,    *)
(* the draw-pass registry and the drawFrame state machine, together with   *)
(* the GPU queue that completes submitted batches.                         *)
(*                                                                         *)
(* Under Spec resource creation (vkCreate.., vkAllocate..) succeeds;       *)
(* ThrowingSpec adds the rebuild whose creation calls fail. The per-call   *)
(* results the code branches on (fence wait, image acquisition, timestamp  *)
(* read-back) are nondeterministic inputs. InitThrowingSpec: the renderer  *)
(* until it first draws, with an init whose creation calls may fail.       *)
(* CatchingSpec: a caller that catches what drawFrame throws and goes on.  *)
(* FollowedSpec: the semaphores of the slots and the presentation engine   *)
(* are followed next to the queue; SubmitFailingSpec: the same, where      *)
(* vkQueueSubmit may fail. SlotTeardownSpec: destroySyncObjects and        *)
(* destroyCommandPoolsAndBuffers on slot sets created in part.             *)
(*                                                                         *)
(* Beside the renderer: a TrianglesRenderPassModule (TrianglesSpec) and an *)
(* AssetManager (AssetSpec), each called in any order by any caller.       *)
(***************************************************************************)
EXTENDS Integers, Sequences, FiniteSets, TLC

\* ------------------------------------------------------------------ bounds
MaxRing == 2
MaxPasses == 2
MaxPresent == 3
MaxCycles == 2
MaxLoads == 2
MaxRefs == 2
Modules == {1, 2}
ImageCounts == {1, 2}
Extents == {1, 2}

NullPass == 0

\* an extent whose width or height is 0, and the argument of init()
ZeroExtent == 0

VARIABLES
    m_maxFrames,      \* ring size N, fixed by the constructor
    m_initialized,
    m_currentFrame,
    m_frames,         \* slot -> [inFlightFence, commandBuffer]
    m_passes,         \* registered modules, in registration order
    m_imguiRenderCallback,
    m_mainRenderPass, \* "null" | "live"
    m_framebuffers,   \* image index -> the color and depth view it binds
    m_depthImageViews,\* number of depth image/memory/view triples held
    m_extent,
    swapImages,       \* number of image views the swapchain reports
    swapExtent,       \* the extent the swapchain reports
    timestampComputeAndGraphics, \* the device limit of that name
    m_timestampsSupported,
    m_gpuTimeMs,      \* in units of m_timestampPeriod / 1e6 ms
    timestamps,       \* slot -> the frame whose two timestamps its queries hold
    gpuQueue,         \* slots of the batches submitted and not yet completed
    modLast,          \* module -> its most recent lifecycle notification
    pc,               \* "idle" | "wait": drawFrame blocked in vkWaitForFences
                      \* | "thrown": an exception has left drawFrame
                      \* | "destroyed": the destructor has run
    lastOp,           \* the API call made last
    lastRes,          \* how that call ended
    lastArg,          \* the argument of that call: a module or an extent
    lastDraw,         \* "outOfDate" when the most recent drawFrame call met a
                      \* stale surface, "other" otherwise
    callLog,          \* what the call made last did, in order
    presented,        \* frames presented since construction
    triangles,        \* a TrianglesRenderPassModule: its fields, and whether
                      \* its destructor has run
    assets,           \* an AssetManager: m_nextID, m_meshes, m_meshPathCache
    meshes,           \* what the AssetManager has handed out and destroyed so
                      \* far, and what its last call returned
    frameHandles,     \* m_frames handle by handle: slot -> the two semaphores,
                      \* the fence, the command pool and the command buffer of
                      \* its FrameContext, each "null" or "live"
    modTargets,       \* module -> whether the pass and framebuffers its last
                      \* onCreate was handed are those the renderer holds now
                      \* ("current"), have been replaced or destroyed since
                      \* ("stale"), or it was never handed any ("none")
    sync              \* the semaphores of the slots and the frames the GPU and
                      \* the presentation engine have not finished with, where
                      \* they are followed (sync.followed)

vars == <<m_maxFrames, m_initialized, m_currentFrame, m_frames, m_passes,
          m_imguiRenderCallback, m_mainRenderPass, m_framebuffers,
          m_depthImageViews, m_extent, swapImages, swapExtent,
          timestampComputeAndGraphics, m_timestampsSupported, m_gpuTimeMs,
          timestamps, gpuQueue, modLast, pc, lastOp,
          lastRes, lastArg, lastDraw, callLog, presented, triangles, assets,
          meshes, frameHandles, modTargets, sync>>

\* the objects that are not the renderer's: no call on the renderer, and
\* nothing the GPU does for it, touches them
otherObjects == <<triangles, assets, meshes, frameHandles>>

rendererVars == <<m_maxFrames, m_initialized, m_currentFrame, m_frames,
                  m_passes, m_imguiRenderCallback>>
targetVars == <<m_mainRenderPass, m_framebuffers, m_depthImageViews, m_extent,
                swapImages, swapExtent>>

timingVars == <<timestampComputeAndGraphics, m_timestampsSupported, m_gpuTimeMs,
                timestamps>>

\* ----------------------------------------------------------------- helpers
Range(s) == {s[i] : i \in 1..Len(s)}

Ev(e, m, st) == [ev |-> e, m |-> m, st |-> st]

Count(log, e) == Cardinality({i \in 1..Len(log) : log[i].ev = e})

Events(log) == {log[i].ev : i \in 1..Len(log)}

Index(log, e) == CHOOSE i \in 1..Len(log) : log[i].ev = e

At(log, e) == log[Index(log, e)]

CountFor(log, e, m) ==
    Cardinality({i \in 1..Len(log) : log[i].ev = e /\ log[i].m = m})

Occurrences(passes, m) == Cardinality({i \in 1..Len(passes) : passes[i] = m})

\* One call of a module's virtual function: the module, what it is asked and
\* the last lifecycle notification it had received before.
Deliver(acc, m, e) ==
    [acc EXCEPT !.log = Append(@, Ev(e, m, acc.last[m])),
                !.last = IF e = "record" THEN @ ELSE [@ EXCEPT ![m] = e]]

RECURSIVE DeliverSeq(_, _, _)
DeliverSeq(acc, m, es) ==
    IF es = <<>> THEN acc
    ELSE DeliverSeq(Deliver(acc, m, Head(es)), m, Tail(es))

RECURSIVE ForEachPass_Reversed(_, _, _)
ForEachPass_Reversed(acc, passes, es) ==
    IF passes = <<>> THEN acc
    ELSE DeliverSeq(ForEachPass_Reversed(acc, Tail(passes), es), Head(passes), es)

\* for (auto &p : m_passes) if (p) p->...;
RECURSIVE ForEachPass(_, _, _)
ForEachPass(acc, passes, es) ==
    IF passes = <<>> THEN acc
    ELSE ForEachPass(DeliverSeq(acc, Head(passes), es), Tail(passes), es)

\* One step of the running call, with the number of batches the GPU has not
\* completed at that moment.
Emit(acc, e) == [acc EXCEPT !.log = Append(@, Ev(e, acc.busy, "-"))]

RECURSIVE EmitAll(_, _)
EmitAll(acc, es) ==
    IF es = <<>> THEN acc ELSE EmitAll(Emit(acc, Head(es)), Tail(es))

\* the steps that create or destroy what onCreate hands to a module:
\* p->onCreate(*m_ctx, m_mainRenderPass, m_framebuffers)
HandedSteps ==
    {"createMainRenderPass", "createFramebuffers", "destroyFramebuffers",
     "destroyRenderPass"}

\* the place of the last event of a call that satisfies Is, 0 if there is none
LastWhere(log, Is(_)) ==
    LET at == {i \in 1..Len(log) : Is(log[i])}
    IN  IF at = {} THEN 0 ELSE CHOOSE i \in at : \A j \in at : j <= i

\* what a call leaves of the pass and framebuffers each module was handed: an
\* onCreate hands over those held at that moment, a step that creates or
\* destroys them afterwards leaves the module with the former ones
TargetsAfter(given, log) ==
    LET IsStep(e) == e.ev \in HandedSteps
        changed == LastWhere(log, IsStep)
    IN  [m \in Modules |->
            LET IsCreate(e) == e.ev = "onCreate" /\ e.m = m
                created == LastWhere(log, IsCreate)
            IN  IF created > changed THEN "current"
                ELSE IF changed > 0 /\ (created > 0 \/ given[m] # "none") THEN "stale"
                ELSE given[m]]

\* every call of the renderer, by the notifications and steps it made
Handed == modTargets' = TargetsAfter(modTargets, callLog')

\* --------------------------------- semaphores and the presentation engine
\* Where sync.followed holds, the two semaphores of every slot and the frames
\* in flight are followed next to the queue: imageAcquired[s] is "pending"
\* from the acquire that names it until the presentation engine signals it,
\* renderFinished[s] counts the signals no wait has consumed, and inFlight
\* holds, oldest first, the frames whose batch or whose presentation request
\* has not been carried out.
NotFollowed ==
    [followed |-> FALSE, imageAcquired |-> <<>>, renderFinished |-> <<>>,
     inFlight |-> <<>>]

\* vkCreateSemaphore: a semaphore is created unsignaled
FreshSync(slots) ==
    [followed |-> TRUE,
     imageAcquired |-> [s \in slots |-> "unsignaled"],
     renderFinished |-> [s \in slots |-> 0],
     inFlight |-> <<>>]

\* submitInfo.pSignalSemaphores = &frame.renderFinishedSemaphore
SubmitSignals(slot) == slot

PresentWaits_NextSlot(slot) == (slot + 1) % m_maxFrames

\* presentInfo.pWaitSemaphores = &frame.renderFinishedSemaphore
PresentWaits(slot) == slot

\* the frame a drawFrame hands to the GPU and the presentation engine: the
\* acquire signals the slot's imageAcquiredSemaphore, the batch waits on it
\* and signals `signals`, the presentation request for `image` waits on
\* `waits`; work tells whether vkQueueSubmit took the batch
FrameOf(slot, image, submitRes) ==
    [slot |-> slot, image |-> image, signals |-> SubmitSignals(slot),
     waits |-> PresentWaits(slot), work |-> submitRes = "VK_SUCCESS",
     ia |-> FALSE, done |-> FALSE, shown |-> FALSE]

\* the images the application or the presentation engine holds:
\* vkAcquireNextImageKHR(.., UINT64_MAX, ..) returns none of them
Unavailable(sy) ==
    {sy.inFlight[k].image : k \in {j \in DOMAIN sy.inFlight : ~sy.inFlight[j].shown}}

\* a frame leaves when its batch and its presentation request are through
Retire(sy) ==
    [sy EXCEPT !.inFlight =
        SelectSeq(@, LAMBDA r : ~(r.shown /\ (r.done \/ ~r.work)))]

\* the oldest frame in flight that satisfies Is
Oldest(sy, Is(_)) ==
    CHOOSE k \in DOMAIN sy.inFlight :
        /\ Is(sy.inFlight[k])
        /\ \A j \in 1..(k - 1) : ~Is(sy.inFlight[j])

Unfinished(r) == r.work /\ ~r.done

Unshown(r) == ~r.shown

\* a signal operation on a binary semaphore: on one that is signaled already
\* it is invalid, and the signal is either lost or kept for a second wait
Signaled(n) == IF n = 0 THEN {1} ELSE {n, n + 1}

\* what a call of the renderer leaves of the semaphores and the frames in
\* flight: createSyncObjects makes the semaphores, destroySyncObjects
\* destroys them, vkDeviceWaitIdle returns with nothing in flight, and a
\* drawFrame that got to vkQueuePresentKHR has handed over one more frame
SyncAfter(sy, log) ==
    IF ~sy.followed THEN sy
    ELSE IF "destroySyncObjects" \in Events(log) THEN FreshSync({})
    ELSE IF "createSyncObjects" \in Events(log) THEN FreshSync(0..(m_maxFrames - 1))
    ELSE IF "vkDeviceWaitIdle" \in Events(log) THEN FreshSync(DOMAIN sy.imageAcquired)
    ELSE IF "vkQueuePresentKHR" \in Events(log)
    THEN LET slot == At(log, "vkQueueSubmit").m IN
         [sy EXCEPT !.imageAcquired[slot] = "pending",
                    !.inFlight = Append(@, FrameOf(slot, At(log, "vkAcquireNextImageKHR").m,
                                                   At(log, "vkQueueSubmit").st))]
    ELSE sy

\* every call of the renderer: an acquire that succeeds returns an image
\* that is available
Synced ==
    /\ (sync.followed /\ "vkQueuePresentKHR" \in Events(callLog'))
          => At(callLog', "vkAcquireNextImageKHR").m \notin Unavailable(sync)
    /\ sync' = SyncAfter(sync, callLog')

\* ------------------------------------------------------------ the GPU side
\* A call starts with nothing logged, the modules as they are and the GPU as
\* busy as the queue is long.
Call == [log |-> <<>>, last |-> modLast, busy |-> Len(gpuQueue)]

vkDeviceWaitIdle_Skipped(acc) == acc

\* vkDeviceWaitIdle(m_device): returns when the GPU has nothing left to do
vkDeviceWaitIdle(acc) == [Emit(acc, "vkDeviceWaitIdle") EXCEPT !.busy = 0]

\* what a call that ran up to acc leaves in the queue
QueueAfter(acc) == IF acc.busy = 0 THEN <<>> ELSE gpuQueue

\* The batches are the frames in the order of their submission: the j-th
\* batch of the queue is frame number BatchNo(j) since construction.
BatchNo(j) == presented - Len(gpuQueue) + j

\* No frame: what queries hold that have not been written since the pool was made.
NoFrame == 0

\* The query pool once the first k batches of the queue have completed: a
\* batch resets the two queries of its slot and writes both.
Completed(stamps, k) ==
    [s \in DOMAIN stamps |->
        IF \E j \in 1..k : gpuQueue[j] = s
        THEN BatchNo(CHOOSE j \in 1..k : gpuQueue[j] = s /\ \A i \in (j + 1)..k : gpuQueue[i] # s)
        ELSE stamps[s]]

\* every submitted batch has completed when vkDeviceWaitIdle returns
DeviceWaitIdle(frames) ==
    [s \in DOMAIN frames |->
        IF s \in Range(gpuQueue)
        THEN [inFlightFence |-> "signaled", commandBuffer |-> "invalid"]
        ELSE frames[s]]

\* the batch of the oldest unfinished frame is carried out: its wait on the
\* slot's imageAcquiredSemaphore is over, which unsignals it, and the
\* semaphore it signals is signaled
BatchCompletes ==
    IF ~sync.followed THEN sync' = sync
    ELSE LET k == Oldest(sync, Unfinished)
             r == sync.inFlight[k]
         IN  /\ sync.imageAcquired[r.slot] = "signaled"
             /\ \E n \in Signaled(sync.renderFinished[r.signals]) :
                  sync' = Retire([sync EXCEPT !.imageAcquired[r.slot] = "unsignaled",
                                              !.renderFinished[r.signals] = n,
                                              !.inFlight[k].done = TRUE])

\* The queue completes the oldest batch: its fence is signaled and its
\* one-time-submit command buffer leaves the pending state.
GpuComplete ==
    /\ gpuQueue # <<>>
    /\ LET s == Head(gpuQueue) IN
        /\ gpuQueue' = Tail(gpuQueue)
        /\ m_frames' = [m_frames EXCEPT
               ![s] = [inFlightFence |-> "signaled",
                       commandBuffer |-> IF s \in Range(Tail(gpuQueue))
                                         THEN "pending" ELSE "invalid"]]
    /\ timestamps' = Completed(timestamps, 1)
    /\ BatchCompletes
    /\ UNCHANGED <<otherObjects, modTargets, m_maxFrames, m_initialized, m_currentFrame, m_passes,
                   m_imguiRenderCallback, targetVars, modLast, pc, lastOp,
                   lastRes, lastArg, lastDraw, callLog, presented,
                   timestampComputeAndGraphics, m_timestampsSupported, m_gpuTimeMs>>

\* what the steps of the presentation engine leave alone
EngineFrame ==
    UNCHANGED <<otherObjects, modTargets, rendererVars, targetVars, timingVars, gpuQueue,
                modLast, pc, lastOp, lastRes, lastArg, lastDraw, callLog, presented>>

\* The presentation engine signals the imageAcquiredSemaphore of an acquire:
\* the image can be written.
ImageReady ==
    /\ sync.followed
    /\ \E k \in DOMAIN sync.inFlight :
        /\ ~sync.inFlight[k].ia
        /\ sync.imageAcquired[sync.inFlight[k].slot] = "pending"
        /\ sync' = [sync EXCEPT !.imageAcquired[sync.inFlight[k].slot] = "signaled",
                                !.inFlight[k].ia = TRUE]
    /\ EngineFrame

\* The oldest presentation request is carried out: its wait on the semaphore
\* it names is over, which unsignals it, and the image is shown and returned.
PresentBegins ==
    /\ sync.followed
    /\ \E j \in DOMAIN sync.inFlight : Unshown(sync.inFlight[j])
    /\ LET k == Oldest(sync, Unshown)
           r == sync.inFlight[k]
       IN  /\ sync.renderFinished[r.waits] > 0
           /\ sync' = Retire([sync EXCEPT !.renderFinished[r.waits] = @ - 1,
                                          !.inFlight[k].shown = TRUE])
    /\ EngineFrame

\* ------------------------------------------------------------------- Init
\* the renderer and the other objects after construction
Constructed ==
    /\ m_maxFrames \in 1..MaxRing
    /\ m_initialized = FALSE
    /\ m_currentFrame = 0
    /\ m_frames = [s \in {} |-> 0]
    /\ m_passes = <<>>
    /\ m_imguiRenderCallback = FALSE
    /\ m_mainRenderPass = "null"
    /\ m_framebuffers = <<>>
    /\ m_depthImageViews = 0
    /\ swapImages \in ImageCounts
    /\ swapExtent \in Extents
    /\ m_extent = swapExtent
    /\ timestampComputeAndGraphics \in BOOLEAN
    /\ m_timestampsSupported = FALSE
    /\ m_gpuTimeMs = 0
    /\ timestamps = <<>>
    /\ gpuQueue = <<>>
    /\ modLast = [m \in Modules |-> "none"]
    /\ pc = "idle"
    /\ lastOp = "Renderer"
    /\ lastRes = "done"
    /\ lastArg = NullPass
    /\ lastDraw = "other"
    /\ callLog = <<>>
    /\ presented = 0
    /\ triangles = [m_device |-> "null", m_extent |-> ZeroExtent,
                    m_pipelineLayout |-> "null",
                    m_defaultInstanceVB |-> [buffer |-> "null", memory |-> "null"],
                    creates |-> 0, released |-> 0, destructed |-> FALSE]
    /\ assets = [m_nextID |-> 1, m_meshes |-> <<>>, m_meshPathCache |-> <<>>]
    /\ meshes = [alive |-> TRUE, issued |-> {}, destroyed |-> {}, owed |-> <<>>,
                 path |-> 0, h |-> [id |-> 0, generation |-> 0],
                 handle |-> [id |-> 0, generation |-> 0], asset |-> 0]
    /\ frameHandles = <<>>
    /\ modTargets = [m \in Modules |-> "none"]

\* after construction, with the GPU seen as the queue of batches alone
Init ==
    /\ Constructed
    /\ sync = NotFollowed

\* after construction, with the semaphores and the presentation engine
\* followed: no semaphore exists yet
FollowedInit ==
    /\ Constructed
    /\ sync = FreshSync({})

\* ------------------------------------------------- resources and lifecycle
Slots == 0..(m_maxFrames - 1)

InitialFence_Unsignaled == "unsignaled"

\* VK_FENCE_CREATE_SIGNALED_BIT
InitialFence == "signaled"

\* createSyncObjects and createCommandPoolsAndBuffers, after
\* m_frames.resize(m_maxFrames): every slot gets a new fence and a new
\* primary command buffer.
createFrames ==
    [s \in Slots |-> [inFlightFence |-> InitialFence, commandBuffer |-> "initial"]]

destroyFrames_KeepPools(frames) ==
    [s \in DOMAIN frames |-> [inFlightFence |-> "null",
                              commandBuffer |-> frames[s].commandBuffer]]

\* destroySyncObjects and destroyCommandPoolsAndBuffers
destroyFrames(frames) ==
    [s \in DOMAIN frames |-> [inFlightFence |-> "null", commandBuffer |-> "null"]]

createDepthResources_KeepCount(images) ==
    IF m_depthImageViews = 0 THEN images ELSE m_depthImageViews

\* m_depthImages, m_depthMemories and m_depthImageViews are resized to
\* imageViews.size() and filled: the number of triples held afterwards
createDepthResources(images) == images

createFramebuffers_KeepCount(images) ==
    IF m_framebuffers = <<>>
    THEN [i \in 0..(images - 1) |-> [color |-> i, depth |-> i]]
    ELSE m_framebuffers

\* m_framebuffers.resize(imageViews.size()); framebuffer i is made of
\* attachments {imageViews[i], m_depthImageViews[i]}
createFramebuffers(images) ==
    [i \in 0..(images - 1) |-> [color |-> i, depth |-> i]]

TimestampsSupported_Unchecked == TRUE

\* createTimestampQueryPool: m_timestampsSupported is the device limit
TimestampsSupported == timestampComputeAndGraphics

\* createTimestampQueryPool: a pool of two queries per slot, none written yet,
\* when timestamps are supported, and no pool otherwise
createTimestampQueryPool(supported) ==
    IF supported THEN [s \in Slots |-> NoFrame] ELSE <<>>

\* a VK_NULL_HANDLE entry of m_framebuffers
NullFramebuffer == [color |-> -1, depth |-> -1]

\* what a handle variable holds just before a call stores into it or reads it
Held(h, live) == IF h \in live THEN "live" ELSE "null"

\* for (h : hs) { es[1](h); es[2](h); .. }: the calls es on every handle of
\* the sequence hs, in its order, each with what the handle variable held
EmitEach(acc, es, hs, live) ==
    LET calls == [k \in 1..(Len(hs) * Len(es)) |->
                    LET h == hs[((k - 1) \div Len(es)) + 1] IN
                    Ev(es[((k - 1) % Len(es)) + 1], h, Held(h, live))]
    IN  [acc EXCEPT !.log = @ \o calls]

\* the indices 0 .. n-1 of a vector of n handles, in order
UpTo(n) == [i \in 1..n |-> i - 1]

\* if (handle != VK_NULL_HANDLE): those of them that are live
Those(hs, live) == SelectSeq(hs, LAMBDA h : h \in live)

\* the slots of which the given handle is not VK_NULL_HANDLE
LiveSlots(frames, field) == {s \in DOMAIN frames : frames[s][field] # "null"}

LiveFramebuffers == {i \in DOMAIN m_framebuffers : m_framebuffers[i] # NullFramebuffer}

LiveDepth == 0..(m_depthImageViews - 1)

LivePass == IF m_mainRenderPass # "null" THEN {0} ELSE {}

LivePool == IF timestamps # <<>> THEN {0} ELSE {}

\* destroyDepthResources: three loops, each over the handles that are not null
destroyDepthResources(acc) ==
    LET hs == UpTo(m_depthImageViews) IN
    EmitEach(EmitEach(EmitEach(acc, <<"vkDestroyImageView">>, hs, LiveDepth),
                      <<"vkDestroyImage">>, hs, LiveDepth),
             <<"vkFreeMemory">>, hs, LiveDepth)

\* destroyTimestampQueryPool
destroyTimestampQueryPool(acc) ==
    EmitEach(acc, <<"vkDestroyQueryPool">>, Those(<<0>>, LivePool), LivePool)

\* The Vulkan calls of one step of init or cleanup on the handles it goes
\* through. A slot's two semaphores are created and destroyed in the same
\* loop iterations as its fence, and its command buffer with its pool.
HandleCalls(acc, step) ==
    CASE step = "createDepthResources" ->
            EmitEach(destroyDepthResources(acc), <<"CreateImage2D", "CreateImageView2D">>,
                     UpTo(swapImages), {})
      [] step = "createMainRenderPass" ->
            EmitEach(acc, <<"vkCreateRenderPass">>, <<0>>, LivePass)
      [] step = "createFramebuffers" ->
            EmitEach(acc, <<"vkCreateFramebuffer">>, UpTo(swapImages), LiveFramebuffers)
      [] step = "createSyncObjects" ->
            EmitEach(acc, <<"vkCreateSemaphore", "vkCreateSemaphore", "vkCreateFence">>,
                     UpTo(m_maxFrames), LiveSlots(m_frames, "inFlightFence"))
      [] step = "createCommandPoolsAndBuffers" ->
            EmitEach(acc, <<"vkCreateCommandPool", "vkAllocateCommandBuffers">>,
                     UpTo(m_maxFrames), LiveSlots(m_frames, "commandBuffer"))
      [] step = "createTimestampQueryPool" ->
            EmitEach(destroyTimestampQueryPool(acc), <<"vkCreateQueryPool">>,
                     IF TimestampsSupported THEN <<0>> ELSE <<>>, {})
      [] step = "destroyTimestampQueryPool" -> destroyTimestampQueryPool(acc)
      [] step = "destroyCommandPoolsAndBuffers" ->
            LET live == LiveSlots(m_frames, "commandBuffer") IN
            EmitEach(acc, <<"vkDestroyCommandPool">>, Those(UpTo(m_maxFrames), live), live)
      [] step = "destroySyncObjects" ->
            LET live == LiveSlots(m_frames, "inFlightFence") IN
            EmitEach(acc, <<"vkDestroySemaphore", "vkDestroySemaphore", "vkDestroyFence">>,
                     Those(UpTo(m_maxFrames), live), live)
      [] step = "destroyFramebuffers" ->
            EmitEach(acc, <<"vkDestroyFramebuffer">>,
                     Those(UpTo(Cardinality(DOMAIN m_framebuffers)), LiveFramebuffers), LiveFramebuffers)
      [] step = "destroyDepthResources" -> destroyDepthResources(acc)
      [] step = "destroyRenderPass" ->
            EmitEach(acc, <<"vkDestroyRenderPass">>, Those(<<0>>, LivePass), LivePass)

\* the steps of init or of cleanup, each followed by its Vulkan calls
RECURSIVE EmitCalls(_, _)
EmitCalls(acc, steps) ==
    IF steps = <<>> THEN acc
    ELSE EmitCalls(HandleCalls(Emit(acc, Head(steps)), Head(steps)), Tail(steps))

InitSteps ==
    <<"createDepthResources", "createMainRenderPass", "createFramebuffers",
      "createSyncObjects", "createCommandPoolsAndBuffers",
      "createTimestampQueryPool">>

\* if (extent.width > 0 && extent.height > 0) m_extent = extent;
Override(current, extent) == IF extent # ZeroExtent THEN extent ELSE current

\* m_extent = m_swapchain->GetExtent();
Requery(current) == swapExtent

\* m_extent when init returns: the two assignments, in the order of the code
InitExtent(extent) == Requery(Override(m_extent, extent))

\* Renderer::init past its guard: everything is built and the modules are told
Build(extent) ==
    /\ \E acc \in {ForEachPass(EmitCalls(Call, InitSteps), m_passes, <<"onCreate">>)} :
        /\ callLog' = acc.log
        /\ modLast' = acc.last
    /\ m_frames' = createFrames
    /\ m_depthImageViews' = createDepthResources(swapImages)
    /\ m_mainRenderPass' = "live"
    /\ m_framebuffers' = createFramebuffers(swapImages)
    /\ m_extent' = InitExtent(extent)
    /\ m_timestampsSupported' = TimestampsSupported
    /\ timestamps' = createTimestampQueryPool(TimestampsSupported)
    /\ m_initialized' = TRUE
    /\ lastOp' = "init"
    /\ lastRes' = "done"
    /\ lastArg' = extent
    /\ Handed
    /\ Synced
    /\ UNCHANGED <<otherObjects, m_maxFrames, m_currentFrame, m_passes, m_imguiRenderCallback,
                   swapImages, swapExtent, gpuQueue, pc, lastDraw, presented,
                   timestampComputeAndGraphics, m_gpuTimeMs>>

\* Renderer::init(extent), and Renderer::init() as init(ZeroExtent), on a
\* renderer that is not initialized
init(extent) ==
    /\ pc = "idle"
    /\ ~m_initialized
    /\ Build(extent)

initAgain_Rebuilds(extent) ==
    /\ pc = "idle"
    /\ m_initialized
    /\ Build(extent)

\* Renderer::init on an initialized renderer: if (m_initialized) return;
initAgain(extent) ==
    /\ pc = "idle"
    /\ m_initialized
    /\ callLog' = <<>>
    /\ lastOp' = "init"
    /\ lastRes' = "noop"
    /\ lastArg' = extent
    /\ Handed
    /\ Synced
    /\ UNCHANGED <<otherObjects, rendererVars, targetVars, timingVars, gpuQueue, modLast, pc,
                   lastDraw, presented>>

CleanupSteps ==
    <<"destroyTimestampQueryPool", "destroyCommandPoolsAndBuffers",
      "destroySyncObjects", "destroyFramebuffers", "destroyDepthResources",
      "destroyRenderPass">>

cleanupCalls_ResourcesFirst ==
    ForEachPass(EmitCalls(vkDeviceWaitIdle(Call), CleanupSteps), m_passes, <<"onDestroy">>)

\* what cleanup does past its guard, in order: the wait for the device, the
\* modules' onDestroy, the destroy functions
cleanupCalls ==
    EmitCalls(ForEachPass(vkDeviceWaitIdle(Call), m_passes, <<"onDestroy">>), CleanupSteps)

\* Renderer::cleanup past its guard: the device is waited for, the modules are
\* told and everything init built is destroyed
Teardown ==
    /\ \E acc \in {cleanupCalls} :
        /\ callLog' = acc.log
        /\ modLast' = acc.last
        /\ gpuQueue' = QueueAfter(acc)
        /\ m_frames' = destroyFrames(IF acc.busy = 0 THEN DeviceWaitIdle(m_frames)
                                                     ELSE m_frames)
    /\ m_framebuffers' = <<>>
    /\ m_depthImageViews' = 0
    /\ m_mainRenderPass' = "null"
    /\ m_timestampsSupported' = FALSE
    /\ timestamps' = <<>>
    /\ m_initialized' = FALSE
    /\ Handed
    /\ Synced
    /\ UNCHANGED <<otherObjects, m_maxFrames, m_currentFrame, m_passes, m_imguiRenderCallback,
                   m_extent, swapImages, swapExtent, lastDraw, presented,
                   timestampComputeAndGraphics, m_gpuTimeMs>>

\* if (!m_initialized) return;
Untouched ==
    /\ callLog' = <<>>
    /\ Handed
    /\ Synced
    /\ UNCHANGED <<otherObjects, rendererVars, targetVars, timingVars, gpuQueue, modLast,
                   lastDraw, presented>>

\* Renderer::cleanup on an initialized renderer
cleanup ==
    /\ pc = "idle"
    /\ m_initialized
    /\ Teardown
    /\ lastOp' = "cleanup"
    /\ lastRes' = "done"
    /\ lastArg' = NullPass
    /\ UNCHANGED pc

cleanupAgain_TearsDown ==
    /\ pc = "idle"
    /\ ~m_initialized
    /\ Teardown
    /\ lastOp' = "cleanup"
    /\ lastRes' = "done"
    /\ lastArg' = NullPass
    /\ UNCHANGED pc

\* Renderer::cleanup on a renderer that is not initialized: return
cleanupAgain ==
    /\ pc = "idle"
    /\ ~m_initialized
    /\ Untouched
    /\ lastOp' = "cleanup"
    /\ lastRes' = "noop"
    /\ lastArg' = NullPass
    /\ UNCHANGED pc

\* Renderer::~Renderer: if (m_initialized) cleanup(); nothing is called on
\* the renderer afterwards
destructor ==
    /\ pc = "idle"
    /\ IF m_initialized THEN Teardown ELSE Untouched
    /\ pc' = "destroyed"
    /\ lastOp' = "~Renderer"
    /\ lastRes' = IF m_initialized THEN "done" ELSE "noop"
    /\ lastArg' = NullPass

RegisterNotifies_Never == FALSE

RegisterNotifies_Always == TRUE

\* if (m_initialized) pass->onCreate(...)
RegisterNotifies == m_initialized

\* Renderer::registerPass
registerPass(pass) ==
    /\ pc = "idle"
    /\ IF pass = NullPass
       THEN /\ callLog' = <<>>
            /\ lastRes' = "null"
            /\ UNCHANGED <<m_passes, modLast>>
       ELSE /\ Len(m_passes) < MaxPasses
            /\ m_passes' = Append(m_passes, pass)
            /\ LET acc == IF RegisterNotifies
                          THEN Deliver(Call, pass, "onCreate")
                          ELSE Call IN
                /\ callLog' = acc.log
                /\ modLast' = acc.last
            /\ lastRes' = "registered"
    /\ lastOp' = "registerPass"
    /\ lastArg' = pass
    /\ Handed
    /\ Synced
    /\ UNCHANGED <<otherObjects, m_maxFrames, m_initialized, m_currentFrame, m_frames,
                   m_imguiRenderCallback, targetVars, timingVars, gpuQueue, pc,
                   lastDraw, presented>>

\* Renderer::setImGuiRenderCallback
setImGuiRenderCallback(callback) ==
    /\ pc = "idle"
    /\ m_imguiRenderCallback' = callback
    /\ callLog' = <<>>
    /\ lastOp' = "setImGuiRenderCallback"
    /\ lastRes' = "done"
    /\ lastArg' = NullPass
    /\ Handed
    /\ Synced
    /\ UNCHANGED <<otherObjects, m_maxFrames, m_initialized, m_currentFrame, m_frames, m_passes,
                   targetVars, timingVars, gpuQueue, modLast, pc, lastDraw,
                   presented>>

\* ------------------------------------------------------------- rebuild path
\* SwapChain::Recreate(m_extent): the surface is rebuilt and may come back
\* with another number of images and another extent.
Recreate(n, e) == swapImages' = n /\ swapExtent' = e

RebuildDestroySteps ==
    <<"destroyFramebuffers", "destroyDepthResources", "destroyRenderPass">>

RebuildCreateSteps ==
    <<"createDepthResources", "createMainRenderPass", "createFramebuffers">>

\* m_swapchainImageFormat = m_swapchain->GetImageFormat();
\* m_extent = m_swapchain->GetExtent();
RebuildRequery == <<"GetImageFormat", "GetExtent">>

RebuildTeardown_TargetsFirst(acc) ==
    EmitAll(ForEachPass(EmitAll(vkDeviceWaitIdle(Emit(acc, "recreateSwapchainDependent")),
                                RebuildDestroySteps),
                        m_passes, <<"onDestroy">>),
            RebuildRequery)

\* recreateSwapchainDependent up to the point where everything is destroyed
\* and the format and extent of the new surface have been read
RebuildTeardown(acc) ==
    EmitAll(ForEachPass(vkDeviceWaitIdle(Emit(acc, "recreateSwapchainDependent")),
                        m_passes, <<"onDestroy">>),
            RebuildDestroySteps \o RebuildRequery)

recreateSwapchainDependent_NotifyFirst(acc) ==
    EmitAll(ForEachPass(RebuildTeardown(acc), m_passes, <<"onResize", "onCreate">>),
            RebuildCreateSteps)

recreateSwapchainDependent_NoResize(acc) ==
    ForEachPass(EmitAll(RebuildTeardown(acc), RebuildCreateSteps),
                m_passes, <<"onCreate">>)

recreateSwapchainDependent_CreateFirst(acc) ==
    ForEachPass(EmitAll(RebuildTeardown(acc), RebuildCreateSteps),
                m_passes, <<"onCreate", "onResize">>)

\* Renderer::recreateSwapchainDependent, as the notifications and steps it
\* appends to the running call
recreateSwapchainDependent(acc) ==
    ForEachPass(EmitAll(RebuildTeardown(acc), RebuildCreateSteps),
                m_passes, <<"onResize", "onCreate">>)

\* the call of Recreate, with the number of images the surface had until then
Recreating(acc) == [acc EXCEPT !.log = Append(@, Ev("Recreate", swapImages, "-"))]

RecoverOutOfDate_RebuildFirst(acc) == Recreating(recreateSwapchainDependent(acc))

\* m_swapchain->Recreate(m_extent); recreateSwapchainDependent(); return;
RecoverOutOfDate(acc) == recreateSwapchainDependent(Recreating(acc))

\* ---------------------------------------------------------------- drawFrame
OtherAcquireErrors == {"VK_ERROR_SURFACE_LOST_KHR"}

FenceWaitPasses_NoWait(frames, s) == TRUE

\* vkWaitForFences(..., UINT64_MAX) returns VK_SUCCESS once the fence is signaled
FenceWaitPasses(frames, s) == frames[s].inFlightFence = "signaled"

NextSlot_NoAdvance(cur, n) == cur

\* m_currentFrame = (m_currentFrame + 1) % m_maxFrames
NextSlot(cur, n) == (cur + 1) % n

drawFrameNotInitialized_Waits ==
    /\ pc = "idle"
    /\ ~m_initialized
    /\ callLog' = <<Ev("vkWaitForFences", m_currentFrame, "VK_SUCCESS")>>
    /\ lastOp' = "drawFrame"
    /\ lastRes' = "noop"
    /\ lastArg' = NullPass
    /\ lastDraw' = "other"
    /\ Handed
    /\ Synced
    /\ UNCHANGED <<otherObjects, rendererVars, targetVars, timingVars, gpuQueue, modLast, pc,
                   presented>>

\* drawFrame on a renderer that is not initialized: return
drawFrameNotInitialized ==
    /\ pc = "idle"
    /\ ~m_initialized
    /\ callLog' = <<>>
    /\ lastOp' = "drawFrame"
    /\ lastRes' = "noop"
    /\ lastArg' = NullPass
    /\ lastDraw' = "other"
    /\ Handed
    /\ Synced
    /\ UNCHANGED <<otherObjects, rendererVars, targetVars, timingVars, gpuQueue, modLast, pc,
                   presented>>

\* drawFrame is called and blocks in vkWaitForFences on the current slot
drawFrameEnter ==
    /\ pc = "idle"
    /\ m_initialized
    /\ presented < MaxPresent
    /\ pc' = "wait"
    /\ callLog' = <<>>
    /\ lastOp' = "drawFrame"
    /\ lastRes' = "waiting"
    /\ lastArg' = NullPass
    /\ Handed
    /\ Synced
    /\ UNCHANGED <<otherObjects, rendererVars, targetVars, timingVars, gpuQueue, modLast,
                   lastDraw, presented>>

Waited == <<Ev("vkWaitForFences", m_currentFrame, "VK_SUCCESS")>>

WaitError == <<Ev("vkWaitForFences", m_currentFrame, "VK_ERROR_DEVICE_LOST")>>

\* the overlay callback, when one is set
ImGui(acc) ==
    IF m_imguiRenderCallback
    THEN [acc EXCEPT !.log = Append(@, Ev("imguiRenderCallback", m_currentFrame, "-"))]
    ELSE acc

\* if (m_timestampsSupported && m_timestampQueryPool != VK_NULL_HANDLE)
Timed == m_timestampsSupported /\ timestamps # <<>>

\* timestamps[1] - timestamps[0] of a pair of results; 0 stands for a pair
\* with timestamps[1] <= timestamps[0]
TickDeltas == {0, 1}

\* prevFrame = (m_currentFrame + m_maxFrames - 1) % m_maxFrames
PrevSlot(cur, n) == (cur + n - 1) % n

\* vkGetQueryPoolResults(.., VK_QUERY_RESULT_64_BIT) on the two queries of
\* slot s, without the wait bit: the results the queries hold, with the frame
\* that wrote them, or VK_NOT_READY while a batch that resets them is in
\* flight. Queries no batch has reset since the pool was made are read
\* uninitialized: either answer, with results that no frame wrote.
vkGetQueryPoolResults(s) ==
    {[res |-> "VK_SUCCESS", frame |-> timestamps[s], ticks |-> d] : d \in TickDeltas}
    \cup (IF s \in Range(gpuQueue) \/ timestamps[s] = NoFrame
          THEN {[res |-> "VK_NOT_READY", frame |-> NoFrame, ticks |-> 0]}
          ELSE {})

\* what the read-back after vkQueueSubmit may find
Harvests ==
    IF Timed /\ m_maxFrames > 1
    THEN vkGetQueryPoolResults(PrevSlot(m_currentFrame, m_maxFrames))
    ELSE {[res |-> "skipped", frame |-> NoFrame, ticks |-> 0]}

Taken_AnySuccess(h) == h.res = "VK_SUCCESS"

\* if (queryResult == VK_SUCCESS && timestamps[1] > timestamps[0])
Taken(h) == h.res = "VK_SUCCESS" /\ h.ticks > 0

HarvestLog(h) ==
    IF h.res = "skipped" THEN <<>>
    ELSE <<Ev("vkGetQueryPoolResults", PrevSlot(m_currentFrame, m_maxFrames), h.res)>>
         \o (IF Taken(h) THEN <<Ev("m_gpuTimeMs", h.frame, "-")>> ELSE <<>>)

\* the results of vkQueueSubmit other than VK_SUCCESS
SubmitErrors == {"VK_ERROR_DEVICE_LOST"}

\* From vkResetCommandBuffer to the end of drawFrame: record, submit, read
\* the timestamps back, present and advance, after a wait that logged
\* `waited`, an acquire that returned acquireRes and with a vkQueueSubmit
\* that returns submitRes. The result of vkQueueSubmit is not looked at: a
\* batch the queue did not take leaves the fence as vkResetFences left it
\* and the command buffer recorded, and the rest of the call is the same.
SubmitAndPresent(waited, acquireRes, submitRes) ==
    /\ pc = "wait"
    /\ \E imageIndex \in 0..(swapImages - 1), h \in Harvests :
        LET slot == m_currentFrame
            begun == waited \o
                <<Ev("vkAcquireNextImageKHR", imageIndex, acquireRes),
                  Ev("vkResetCommandBuffer", slot, m_frames[slot].commandBuffer),
                  Ev("vkBeginCommandBuffer", slot, "-")>> \o
                (IF Timed THEN <<Ev("vkCmdResetQueryPool", slot * 2, "-"),
                                 Ev("vkCmdWriteTimestamp", slot * 2, "-")>>
                          ELSE <<>>) \o
                <<Ev("vkCmdBeginRenderPass", imageIndex, "-")>>
            recorded == ImGui(ForEachPass([Call EXCEPT !.log = begun],
                                          m_passes, <<"record">>))
        IN  /\ callLog' = recorded.log \o
                <<Ev("vkCmdEndRenderPass", slot, "-")>> \o
                (IF Timed THEN <<Ev("vkCmdWriteTimestamp", slot * 2 + 1, "-")>>
                          ELSE <<>>) \o
                <<Ev("vkEndCommandBuffer", slot, "-"),
                  Ev("vkResetFences", slot, "-"),
                  Ev("vkQueueSubmit", slot, submitRes)>> \o
                HarvestLog(h) \o
                <<Ev("vkQueuePresentKHR", imageIndex, "-"),
                  Ev("advance", NextSlot(slot, m_maxFrames), "-")>>
            /\ m_gpuTimeMs' = IF Taken(h) THEN h.ticks ELSE m_gpuTimeMs
    /\ m_frames' = [m_frames EXCEPT ![m_currentFrame] =
                        [inFlightFence |-> "unsignaled",
                         commandBuffer |-> IF submitRes = "VK_SUCCESS" THEN "pending"
                                                                       ELSE "executable"]]
    /\ gpuQueue' = IF submitRes = "VK_SUCCESS" THEN Append(gpuQueue, m_currentFrame)
                                               ELSE gpuQueue
    /\ m_currentFrame' = NextSlot(m_currentFrame, m_maxFrames)
    /\ presented' = IF submitRes = "VK_SUCCESS" THEN presented + 1 ELSE presented
    /\ pc' = "idle"
    /\ lastRes' = IF submitRes = "VK_SUCCESS" THEN "presented" ELSE "submitFailed"
    /\ lastDraw' = "other"
    /\ Handed
    /\ Synced
    /\ UNCHANGED <<otherObjects, m_maxFrames, m_initialized, m_passes, m_imguiRenderCallback,
                   targetVars, modLast, lastOp, lastArg,
                   timestampComputeAndGraphics, m_timestampsSupported, timestamps>>

\* the same with a vkQueueSubmit that takes the batch
RecordSubmitPresent(waited, acquireRes) ==
    SubmitAndPresent(waited, acquireRes, "VK_SUCCESS")

drawFrameWaitFailed_NoReturn ==
    RecordSubmitPresent(WaitError, "VK_SUCCESS")

\* r != VK_SUCCESS: logged, return
drawFrameWaitFailed ==
    /\ pc = "wait"
    /\ pc' = "idle"
    /\ callLog' = WaitError
    /\ lastRes' = "waitFailed"
    /\ lastDraw' = "other"
    /\ Handed
    /\ Synced
    /\ UNCHANGED <<otherObjects, rendererVars, targetVars, timingVars, gpuQueue, modLast, lastOp,
                   lastArg, presented>>

drawFrameOutOfDate_ResetsFence ==
    /\ pc = "wait"
    /\ FenceWaitPasses(m_frames, m_currentFrame)
    /\ \E n \in ImageCounts, e \in Extents :
        /\ Recreate(n, e)
        /\ m_extent' = e
        /\ m_depthImageViews' = createDepthResources(n)
        /\ m_framebuffers' = createFramebuffers(n)
    /\ m_mainRenderPass' = "live"
    /\ LET acquired == Append(Waited, Ev("vkAcquireNextImageKHR", 0,
                                         "VK_ERROR_OUT_OF_DATE_KHR"))
        IN  \E acc \in {RecoverOutOfDate([Call EXCEPT !.log = acquired])} :
        /\ callLog' = acc.log
        /\ modLast' = acc.last
    /\ m_frames' = [DeviceWaitIdle(m_frames) EXCEPT
                        ![m_currentFrame].inFlightFence = "unsignaled"]
    /\ gpuQueue' = <<>>
    /\ timestamps' = Completed(timestamps, Len(gpuQueue))
    /\ pc' = "idle"
    /\ lastRes' = "outOfDate"
    /\ lastDraw' = "outOfDate"
    /\ Handed
    /\ Synced
    /\ UNCHANGED <<otherObjects, m_maxFrames, m_initialized, m_currentFrame, m_passes,
                   m_imguiRenderCallback, lastOp, lastArg, presented,
                   timestampComputeAndGraphics, m_timestampsSupported, m_gpuTimeMs>>

\* acquireRes == VK_ERROR_OUT_OF_DATE_KHR: the surface and everything that
\* depends on it are rebuilt and the call returns; the fence is not reset.
drawFrameOutOfDate ==
    /\ pc = "wait"
    /\ FenceWaitPasses(m_frames, m_currentFrame)
    /\ \E n \in ImageCounts, e \in Extents :
        /\ Recreate(n, e)
        /\ m_extent' = e
        /\ m_depthImageViews' = createDepthResources(n)
        /\ m_framebuffers' = createFramebuffers(n)
    /\ m_mainRenderPass' = "live"
    /\ LET acquired == Append(Waited, Ev("vkAcquireNextImageKHR", 0,
                                         "VK_ERROR_OUT_OF_DATE_KHR"))
        IN  \E acc \in {RecoverOutOfDate([Call EXCEPT !.log = acquired])} :
        /\ callLog' = acc.log
        /\ modLast' = acc.last
        /\ m_frames' = IF acc.busy = 0 THEN DeviceWaitIdle(m_frames) ELSE m_frames
        /\ gpuQueue' = QueueAfter(acc)
        /\ timestamps' = IF acc.busy = 0 THEN Completed(timestamps, Len(gpuQueue))
                                         ELSE timestamps
    /\ pc' = "idle"
    /\ lastRes' = "outOfDate"
    /\ lastDraw' = "outOfDate"
    /\ Handed
    /\ Synced
    /\ UNCHANGED <<otherObjects, m_maxFrames, m_initialized, m_currentFrame, m_passes,
                   m_imguiRenderCallback, lastOp, lastArg, presented,
                   timestampComputeAndGraphics, m_timestampsSupported, m_gpuTimeMs>>

drawFrameAcquireFailed_NoReturn ==
    /\ pc = "wait"
    /\ FenceWaitPasses(m_frames, m_currentFrame)
    /\ \E acquireRes \in OtherAcquireErrors : RecordSubmitPresent(Waited, acquireRes)

\* acquireRes != VK_SUCCESS && acquireRes != VK_SUBOPTIMAL_KHR: logged, return
drawFrameAcquireFailed ==
    /\ pc = "wait"
    /\ FenceWaitPasses(m_frames, m_currentFrame)
    /\ \E acquireRes \in OtherAcquireErrors :
        callLog' = Append(Waited, Ev("vkAcquireNextImageKHR", 0, acquireRes))
    /\ pc' = "idle"
    /\ lastRes' = "acquireFailed"
    /\ lastDraw' = "other"
    /\ Handed
    /\ Synced
    /\ UNCHANGED <<otherObjects, rendererVars, targetVars, timingVars, gpuQueue, modLast, lastOp,
                   lastArg, presented>>

\* acquireRes is VK_SUCCESS or VK_SUBOPTIMAL_KHR: the frame is drawn
drawFrameSubmit ==
    /\ pc = "wait"
    /\ FenceWaitPasses(m_frames, m_currentFrame)
    /\ \E acquireRes \in {"VK_SUCCESS", "VK_SUBOPTIMAL_KHR"} :
        RecordSubmitPresent(Waited, acquireRes)

\* acquireRes is VK_SUCCESS or VK_SUBOPTIMAL_KHR and vkQueueSubmit fails
drawFrameSubmitFails ==
    /\ pc = "wait"
    /\ FenceWaitPasses(m_frames, m_currentFrame)
    /\ \E acquireRes \in {"VK_SUCCESS", "VK_SUBOPTIMAL_KHR"}, submitRes \in SubmitErrors :
        SubmitAndPresent(Waited, acquireRes, submitRes)

\* ------------------------------------------------- a rebuild that throws
\* The calls of createDepthResources, createMainRenderPass and
\* createFramebuffers whose failure is answered with
\* throw std::runtime_error(..), and the creation step each belongs to.
ThrowSites ==
    {"findDepthFormat", "CreateImage2D", "CreateImageView2D", "vkCreateRenderPass",
     "vkCreateFramebuffer"}

StepOf(site) ==
    CASE site \in {"findDepthFormat", "CreateImage2D", "CreateImageView2D"} -> 1
      [] site = "vkCreateRenderPass" -> 2
      [] site = "vkCreateFramebuffer" -> 3

\* recreateSwapchainDependent when the call at `site` fails: the creation
\* steps up to the one that throws, and the exception leaving the function
RebuildThrows(acc, site) ==
    LET reached == EmitAll(RebuildTeardown(acc),
                           SubSeq(RebuildCreateSteps, 1, StepOf(site)))
    IN  [reached EXCEPT !.log = Append(@, Ev("throw", StepOf(site), site))]

\* acquireRes == VK_ERROR_OUT_OF_DATE_KHR and a creation call of the rebuild
\* fails: nothing in drawFrame catches, so the exception leaves drawFrame with
\* the renderer still initialized and its render targets as far as they got.
\* The one caller in the repository lets it reach the catch at the end of
\* main, which ends the program: nothing is called after it.
drawFrameRebuildThrows ==
    /\ pc = "wait"
    /\ FenceWaitPasses(m_frames, m_currentFrame)
    /\ \E n \in ImageCounts, e \in Extents, site \in ThrowSites :
        /\ Recreate(n, e)
        /\ m_extent' = e
        /\ m_depthImageViews' = IF site = "findDepthFormat" THEN 0
                                ELSE createDepthResources(n)
        /\ m_mainRenderPass' = IF StepOf(site) > 2 THEN "live" ELSE "null"
        /\ \E failed \in 0..(n - 1) :
             m_framebuffers' =
                IF site = "vkCreateFramebuffer"
                THEN [i \in 0..(n - 1) |-> IF i < failed THEN createFramebuffers(n)[i]
                                                        ELSE NullFramebuffer]
                ELSE <<>>
        /\ LET acquired == Append(Waited, Ev("vkAcquireNextImageKHR", 0,
                                             "VK_ERROR_OUT_OF_DATE_KHR"))
            IN  \E acc \in {RebuildThrows(Recreating([Call EXCEPT !.log = acquired]), site)} :
            /\ callLog' = acc.log
            /\ modLast' = acc.last
            /\ m_frames' = IF acc.busy = 0 THEN DeviceWaitIdle(m_frames) ELSE m_frames
            /\ gpuQueue' = QueueAfter(acc)
            /\ timestamps' = IF acc.busy = 0 THEN Completed(timestamps, Len(gpuQueue))
                                             ELSE timestamps
    /\ pc' = "thrown"
    /\ lastRes' = "threw"
    /\ lastDraw' = "other"
    /\ Handed
    /\ Synced
    /\ UNCHANGED <<otherObjects, m_maxFrames, m_initialized, m_currentFrame, m_passes,
                   m_imguiRenderCallback, lastOp, lastArg, presented,
                   timestampComputeAndGraphics, m_timestampsSupported, m_gpuTimeMs>>

\* The exception of drawFrameRebuildThrows in the hands of a caller that
\* catches it and goes on using the renderer: drawFrame has no handler and
\* changes nothing on the way out, so the renderer is as the throw left it.
drawFrameCaught ==
    /\ pc = "thrown"
    /\ pc' = "idle"
    /\ UNCHANGED <<otherObjects, modTargets, sync, rendererVars, targetVars, timingVars,
                   gpuQueue, modLast, lastOp, lastRes, lastArg, lastDraw, callLog,
                   presented>>

\* ---------------------------------------------------- an init that throws
\* The calls of createSyncObjects and createCommandPoolsAndBuffers whose
\* failure is answered with throw std::runtime_error(..); init also makes
\* the calls of ThrowSites.
SlotThrowSites ==
    {"vkCreateSemaphore", "vkCreateFence", "vkCreateCommandPool",
     "vkAllocateCommandBuffers"}

\* the step of InitSteps a failing call belongs to
InitStepOf(site) ==
    CASE site \in ThrowSites -> StepOf(site)
      [] site \in {"vkCreateSemaphore", "vkCreateFence"} -> 4
      [] site \in {"vkCreateCommandPool", "vkAllocateCommandBuffers"} -> 5

\* a FrameContext none of whose handles has been created
NullFrame == [inFlightFence |-> "null", commandBuffer |-> "null"]

\* m_frames.resize(m_maxFrames): the slots that exist keep what they hold
ResizedFrames ==
    [s \in Slots |-> IF s \in DOMAIN m_frames THEN m_frames[s] ELSE NullFrame]

\* m_framebuffers.resize(n): the entries that exist keep what they hold
ResizedFramebuffers(n) ==
    [i \in 0..(n - 1) |-> IF i \in DOMAIN m_framebuffers THEN m_framebuffers[i]
                                                         ELSE NullFramebuffer]

\* the handles on which the call at `site` can be the one that fails
FailedAt(site) ==
    IF site = "vkCreateFramebuffer" THEN 0..(swapImages - 1)
    ELSE IF site \in SlotThrowSites THEN Slots
    ELSE {0}

InitializedWhenThrown_Set == TRUE

\* m_initialized = true is the last statement of init: an exception that
\* leaves init before it leaves m_initialized as it was
InitializedWhenThrown == m_initialized

\* init when the call at `site` fails on handle number `failed`: the steps
\* up to the one that throws have run, the handles before `failed` have been
\* created, no module has been told and the exception leaves init. The
\* caller catches it and goes on using the renderer.
initThrows(extent) ==
    /\ pc = "idle"
    /\ ~m_initialized
    /\ \E site \in ThrowSites \cup SlotThrowSites :
        LET step == InitStepOf(site) IN
        /\ callLog' = Append(EmitAll(Call, SubSeq(InitSteps, 1, step)).log,
                             Ev("throw", step, site))
        /\ m_depthImageViews' = IF site = "findDepthFormat" THEN 0
                                ELSE createDepthResources(swapImages)
        /\ m_mainRenderPass' = IF step > 2 THEN "live" ELSE m_mainRenderPass
        /\ \E failed \in FailedAt(site) :
           /\ m_framebuffers' =
                IF step < 3 THEN m_framebuffers
                ELSE IF step > 3 THEN createFramebuffers(swapImages)
                ELSE [i \in 0..(swapImages - 1) |->
                        IF i < failed THEN createFramebuffers(swapImages)[i]
                                      ELSE ResizedFramebuffers(swapImages)[i]]
           /\ m_frames' =
                [s \in Slots |->
                    [inFlightFence |->
                        IF step > 4 \/ (step = 4 /\ s < failed)
                        THEN InitialFence ELSE ResizedFrames[s].inFlightFence,
                     commandBuffer |->
                        IF step = 5 /\ s < failed
                        THEN "initial" ELSE ResizedFrames[s].commandBuffer]]
    /\ m_extent' = InitExtent(extent)
    /\ m_initialized' = InitializedWhenThrown
    /\ lastOp' = "init"
    /\ lastRes' = "threw"
    /\ lastArg' = extent
    /\ Handed
    /\ Synced
    /\ UNCHANGED <<otherObjects, m_maxFrames, m_currentFrame, m_passes, m_imguiRenderCallback,
                   swapImages, swapExtent, timingVars, gpuQueue, modLast, pc,
                   lastDraw, presented>>

\* ------------------------------------------- TrianglesRenderPassModule
\* (src/Engine/src/TrianglesRenderPassModule.cpp, src/Engine/src/BufferUtils.cpp)
\* A handle variable holds "null" (VK_NULL_HANDLE) or "live"; creates counts
\* the onCreate calls and released the pipeline layouts destroyed so far.

\* the state after construction of a run in which only an object beside the
\* renderer is used
RendererAside ==
    /\ Init
    /\ m_maxFrames = 1
    /\ swapImages = 1
    /\ ~timestampComputeAndGraphics

\* the calls of onCreate after whose failure it throws, or returns an error
\* that is answered with a throw
OnCreateThrowSites ==
    {"vkCreateBuffer", "vkMapMemory", "vkCreatePipelineLayout", "m_pipeline.create"}

AfterDestroy_Kept(handle) == "dangling"

\* handle = VK_NULL_HANDLE; after the vkDestroy.. or vkFree.. call on it
AfterDestroy(handle) == "null"

\* if (handle != VK_NULL_HANDLE) { destroy(handle); handle = VK_NULL_HANDLE; }
\* as the call it adds to the log, with what the handle held
DestroyIfHeld(log, call, handle) ==
    IF handle # "null" THEN Append(log, Ev(call, 0, handle)) ELSE log

Nulled(handle) == IF handle # "null" THEN AfterDestroy(handle) ELSE handle

\* DestroyVertexBuffer(device, handle)
DestroyVertexBuffer(log, handle) ==
    DestroyIfHeld(DestroyIfHeld(log, "vkDestroyBuffer", handle.buffer),
                  "vkFreeMemory", handle.memory)

\* TrianglesRenderPassModule::destroyResources, as the calls it makes
destroyResourcesCalls(t) ==
    IF t.m_device = "null" THEN <<>>
    ELSE DestroyVertexBuffer(
             DestroyIfHeld(<<Ev("m_pipeline.destroy", 0, "-")>>,
                           "vkDestroyPipelineLayout", t.m_pipelineLayout),
             t.m_defaultInstanceVB)

\* TrianglesRenderPassModule::destroyResources, as the fields it leaves
destroyResources(t) ==
    IF t.m_device = "null" THEN t
    ELSE [t EXCEPT
            !.m_pipelineLayout = Nulled(@),
            !.m_defaultInstanceVB = [buffer |-> Nulled(@.buffer),
                                     memory |-> Nulled(@.memory)],
            !.released = IF t.m_pipelineLayout # "null" THEN @ + 1 ELSE @]

\* what the module's calls leave alone
ModuleFrame ==
    UNCHANGED <<rendererVars, targetVars, timingVars, gpuQueue, modLast, pc, lastDraw,
                presented, lastArg, assets, meshes, frameHandles, modTargets, sync>>

\* TrianglesRenderPassModule::onCreate. outcome is VK_SUCCESS or the call
\* that fails; vkCreateBuffer stands for the failures of
\* CreateOrUpdateVertexBuffer that leave the handle as it was, and is only
\* made when the handle holds no buffer.
onCreate(outcome) ==
    /\ ~triangles.destructed
    /\ triangles.creates < MaxCycles
    /\ outcome = "vkCreateBuffer" => triangles.m_defaultInstanceVB.buffer = "null"
    /\ LET vb == triangles.m_defaultInstanceVB
           buffered == outcome # "vkCreateBuffer"
           laidOut == outcome \notin {"vkCreateBuffer", "vkMapMemory",
                                      "vkCreatePipelineLayout"}
       IN  /\ triangles' =
                [triangles EXCEPT
                   !.m_device = "live",
                   !.m_extent = swapExtent,
                   !.m_defaultInstanceVB =
                       IF buffered THEN [buffer |-> "live", memory |-> "live"] ELSE @,
                   !.m_pipelineLayout = IF laidOut THEN "live" ELSE @,
                   !.creates = @ + 1]
           /\ callLog' =
                <<Ev("CreateOrUpdateVertexBuffer", 0, vb.buffer)>> \o
                (IF outcome \in {"vkCreateBuffer", "vkMapMemory"} THEN <<>>
                 ELSE <<Ev("vkCreatePipelineLayout", 0, triangles.m_pipelineLayout)>>) \o
                (IF laidOut THEN <<Ev("m_pipeline.create", 0, "-")>> ELSE <<>>) \o
                (IF outcome = "VK_SUCCESS" THEN <<>> ELSE <<Ev("throw", 0, outcome)>>)
    /\ lastOp' = "onCreate"
    /\ lastRes' = IF outcome = "VK_SUCCESS" THEN "done" ELSE "threw"
    /\ ModuleFrame

\* TrianglesRenderPassModule::onResize: m_extent = newExtent;
onResize(newExtent) ==
    /\ ~triangles.destructed
    /\ triangles' = [triangles EXCEPT !.m_extent = newExtent]
    /\ callLog' = <<>>
    /\ lastOp' = "onResize"
    /\ lastRes' = "done"
    /\ ModuleFrame

\* TrianglesRenderPassModule::onDestroy: destroyResources();
onDestroy ==
    /\ ~triangles.destructed
    /\ triangles' = destroyResources(triangles)
    /\ callLog' = destroyResourcesCalls(triangles)
    /\ lastOp' = "onDestroy"
    /\ lastRes' = "done"
    /\ ModuleFrame

\* TrianglesRenderPassModule::~TrianglesRenderPassModule: destroyResources();
\* nothing is called on the module afterwards
TrianglesDestructor ==
    /\ ~triangles.destructed
    /\ triangles' = [destroyResources(triangles) EXCEPT !.destructed = TRUE]
    /\ callLog' = destroyResourcesCalls(triangles)
    /\ lastOp' = "~TrianglesRenderPassModule"
    /\ lastRes' = "done"
    /\ ModuleFrame

\* --------------------------------------------------------- AssetManager
\* the cooked mesh paths a caller loads
Paths == {1, 2}

\* MeshHandle{}: id = 0, generation = 0
NullHandle == [id |-> 0, generation |-> 0]

\* MeshHandle::isValid
isValid(h) == h.id # 0

\* the handles a caller can hand to the manager: the invalid one, those it
\* was given, and ones it made up
Handles == [id : 0..MaxLoads, generation : 0..1]

NextIDAfter_Same(id) == id

\* m_nextID++ leaves the counter one above the id it returned
NextIDAfter(id) == id + 1

\* std::unordered_map::emplace: no effect when the key is present
Emplace(map, key, value) ==
    IF key \in DOMAIN map THEN map ELSE map @@ (key :> value)

\* std::unordered_map::erase on a set of keys
Erase(map, keys) == [k \in DOMAIN map \ keys |-> map[k]]

\* m_meshes.find(h.id) != end && it->second.generation == h.generation
Found(m_meshesNow, h) ==
    /\ h.id \in DOMAIN m_meshesNow
    /\ m_meshesNow[h.id].generation = h.generation

\* AssetManager::addRef, as the map it leaves
AddRef(m_meshesNow, h) ==
    IF Found(m_meshesNow, h)
    THEN [m_meshesNow EXCEPT ![h.id].refCount = @ + 1]
    ELSE m_meshesNow

\* AssetManager::release, as the map it leaves
Release(m_meshesNow, h) ==
    IF Found(m_meshesNow, h) /\ m_meshesNow[h.id].refCount > 0
    THEN [m_meshesNow EXCEPT ![h.id].refCount = @ - 1]
    ELSE m_meshesNow

Collectable_Single(entry) == entry.refCount <= 1

\* garbageCollect: if (it->second.refCount == 0)
Collectable(entry) == entry.refCount = 0

loadMeshCached_NoRef(a, path) == a

\* loadMesh on a cached path: addRef(it->second)
loadMeshCached(a, path) ==
    [a EXCEPT !.m_meshes = AddRef(@, a.m_meshPathCache[path])]

\* the asset an acquisition or a release through h counts for: that of the
\* entry h finds, 0 when it finds none
AssetOf(m_meshesNow, h) ==
    IF Found(m_meshesNow, h) THEN m_meshesNow[h.id].asset ELSE 0

\* acquisitions minus releases of each asset, after one more of either
Owed(owed, asset, by) ==
    IF asset \in DOMAIN owed THEN [owed EXCEPT ![asset] = @ + by] ELSE owed

\* asset->destroy(m_device) for the entries of ids, one call each
RECURSIVE DestroyEach(_, _)
DestroyEach(m_meshesNow, ids) ==
    IF ids = {} THEN <<>>
    ELSE LET id == CHOOSE i \in ids : \A j \in ids : i <= j
         IN  <<Ev("destroy", m_meshesNow[id].asset, "live")>> \o
             DestroyEach(m_meshesNow, ids \ {id})

\* what the manager's calls leave alone
AssetFrame ==
    UNCHANGED <<rendererVars, targetVars, timingVars, gpuQueue, modLast, pc, lastDraw,
                presented, lastArg, triangles, frameHandles, modTargets, sync>>

\* AssetManager::loadMesh with createMeshFromData. outcome is VK_SUCCESS or
\* the step that fails; a cached path takes none of these steps.
loadMesh(path, outcome) ==
    /\ meshes.alive
    /\ IF path \in DOMAIN assets.m_meshPathCache
       THEN LET h == assets.m_meshPathCache[path]
            IN  /\ outcome = "VK_SUCCESS"
                /\ Found(assets.m_meshes, h) => assets.m_meshes[h.id].refCount < MaxRefs
                /\ assets' = loadMeshCached(assets, path)
                /\ callLog' = <<Ev("addRef", h.id, "cached")>>
                /\ meshes' = [meshes EXCEPT
                                !.owed = Owed(@, AssetOf(assets.m_meshes, h), 1),
                                !.path = path, !.h = NullHandle,
                                !.handle = h, !.asset = 0]
       ELSE IF outcome # "VK_SUCCESS"
       THEN /\ assets' = assets
            /\ callLog' =
                 IF outcome = "LoadSMeshV0FromFile"
                 THEN <<Ev("LoadSMeshV0FromFile", path, "failed")>>
                 ELSE IF outcome = "vkCreateCommandPool"
                 THEN <<Ev("LoadSMeshV0FromFile", path, "loaded"),
                        Ev("vkCreateCommandPool", 0, "failed")>>
                 ELSE <<Ev("LoadSMeshV0FromFile", path, "loaded"),
                        Ev("vkCreateCommandPool", 0, "VK_SUCCESS"),
                        Ev("upload", 0, "failed"),
                        Ev("vkDestroyCommandPool", 0, "live")>>
            /\ meshes' = [meshes EXCEPT !.path = path, !.h = NullHandle,
                                        !.handle = NullHandle, !.asset = 0]
       ELSE LET id == assets.m_nextID
                asset == Cardinality(DOMAIN meshes.owed) + 1
                entry == [asset |-> asset, generation |-> 1, refCount |-> 1,
                          path |-> path]
                h == [id |-> id, generation |-> 1]
            IN  /\ asset <= MaxLoads
                /\ assets' =
                     [m_nextID |-> NextIDAfter(id),
                      m_meshes |-> Emplace(assets.m_meshes, id, entry),
                      m_meshPathCache |->
                          IF isValid(h) THEN Emplace(assets.m_meshPathCache, path, h)
                          ELSE assets.m_meshPathCache]
                /\ callLog' = <<Ev("LoadSMeshV0FromFile", path, "loaded"),
                                Ev("vkCreateCommandPool", 0, "VK_SUCCESS"),
                                Ev("upload", asset, "uploaded"),
                                Ev("vkDestroyCommandPool", 0, "live")>>
                /\ meshes' = [meshes EXCEPT
                                !.issued = @ \cup {[h |-> h, asset |-> asset]},
                                !.owed = @ @@ (asset :> 1),
                                !.path = path, !.h = NullHandle,
                                !.handle = h, !.asset = 0]
    /\ lastOp' = "loadMesh"
    /\ lastRes' = "done"
    /\ AssetFrame

\* AssetManager::getMesh; the asset it returns, 0 for nullptr
getMesh(h) ==
    /\ meshes.alive
    /\ assets' = assets
    /\ callLog' = <<>>
    /\ meshes' = [meshes EXCEPT !.path = 0, !.h = h, !.handle = NullHandle,
                                !.asset = AssetOf(assets.m_meshes, h)]
    /\ lastOp' = "getMesh"
    /\ lastRes' = "done"
    /\ AssetFrame

\* AssetManager::addRef
addRef(h) ==
    /\ meshes.alive
    /\ Found(assets.m_meshes, h) => assets.m_meshes[h.id].refCount < MaxRefs
    /\ assets' = [assets EXCEPT !.m_meshes = AddRef(@, h)]
    /\ callLog' = <<>>
    /\ meshes' = [meshes EXCEPT !.owed = Owed(@, AssetOf(assets.m_meshes, h), 1),
                                !.path = 0, !.h = NullHandle, !.handle = NullHandle,
                                !.asset = 0]
    /\ lastOp' = "addRef"
    /\ lastRes' = "done"
    /\ AssetFrame

\* AssetManager::release; a caller releases an asset at most once more often
\* than it acquired it
release(h) ==
    /\ meshes.alive
    /\ Found(assets.m_meshes, h) => meshes.owed[AssetOf(assets.m_meshes, h)] >= 0
    /\ assets' = [assets EXCEPT !.m_meshes = Release(@, h)]
    /\ callLog' = <<>>
    /\ meshes' = [meshes EXCEPT !.owed = Owed(@, AssetOf(assets.m_meshes, h), 0 - 1),
                                !.path = 0, !.h = NullHandle, !.handle = NullHandle,
                                !.asset = 0]
    /\ lastOp' = "release"
    /\ lastRes' = "done"
    /\ AssetFrame

\* AssetManager::garbageCollect
garbageCollect ==
    /\ meshes.alive
    /\ LET dead == {id \in DOMAIN assets.m_meshes : Collectable(assets.m_meshes[id])}
       IN  /\ assets' =
                [assets EXCEPT
                   !.m_meshes = Erase(@, dead),
                   !.m_meshPathCache =
                       Erase(@, {assets.m_meshes[id].path : id \in dead})]
           /\ callLog' = DestroyEach(assets.m_meshes, dead)
           /\ meshes' = [meshes EXCEPT
                           !.destroyed = @ \cup {assets.m_meshes[id].asset : id \in dead},
                           !.path = 0, !.h = NullHandle, !.handle = NullHandle,
                           !.asset = 0]
    /\ lastOp' = "garbageCollect"
    /\ lastRes' = "done"
    /\ AssetFrame

\* AssetManager::~AssetManager; nothing is called on the manager afterwards
AssetDestructor ==
    /\ meshes.alive
    /\ assets' = [assets EXCEPT !.m_meshes = <<>>, !.m_meshPathCache = <<>>]
    /\ callLog' = DestroyEach(assets.m_meshes, DOMAIN assets.m_meshes)
    /\ meshes' = [meshes EXCEPT
                    !.alive = FALSE,
                    !.destroyed = @ \cup {assets.m_meshes[id].asset :
                                            id \in DOMAIN assets.m_meshes},
                    !.path = 0, !.h = NullHandle, !.handle = NullHandle, !.asset = 0]
    /\ lastOp' = "~AssetManager"
    /\ lastRes' = "done"
    /\ AssetFrame


\* ------------------------------------------- teardown of the frame slots
\* destroySyncObjects and destroyCommandPoolsAndBuffers as functions of the
\* slot set, applied to slot sets of which any part has been created.

\* a FrameContext of which any of the handles have been created; a command
\* buffer is allocated from the slot's pool
PartialFrames ==
    {f \in [imageAcquiredSemaphore : {"null", "live"},
            renderFinishedSemaphore : {"null", "live"},
            inFlightFence : {"null", "live"},
            commandPool : {"null", "live"},
            commandBuffer : {"null", "live"}] :
        f.commandBuffer = "live" => f.commandPool = "live"}

SyncHandles_NoFence == <<"imageAcquiredSemaphore", "renderFinishedSemaphore">>

\* the handles destroySyncObjects goes through in every slot, in its order
SyncHandles == <<"imageAcquiredSemaphore", "renderFinishedSemaphore", "inFlightFence">>

\* the call that destroys each
DestroyCallOf ==
    [imageAcquiredSemaphore |-> "vkDestroySemaphore",
     renderFinishedSemaphore |-> "vkDestroySemaphore",
     inFlightFence |-> "vkDestroyFence",
     commandPool |-> "vkDestroyCommandPool"]

\* if (f.h != VK_NULL_HANDLE) { vkDestroy..(f.h); f.h = VK_NULL_HANDLE; }
\* for the handles hs of one slot, as the calls made
RECURSIVE DestroyHeld(_, _, _)
DestroyHeld(f, s, hs) ==
    IF hs = <<>> THEN <<>>
    ELSE (IF f[Head(hs)] # "null"
          THEN <<[ev |-> DestroyCallOf[Head(hs)], m |-> s, st |-> f[Head(hs)],
                  handle |-> Head(hs)]>>
          ELSE <<>>) \o DestroyHeld(f, s, Tail(hs))

\* for (auto &f : m_frames) ..., as the calls made on the slots from s on
RECURSIVE ForEachFrame(_, _, _)
ForEachFrame(frames, s, hs) ==
    IF s \notin DOMAIN frames THEN <<>>
    ELSE DestroyHeld(frames[s], s, hs) \o ForEachFrame(frames, s + 1, hs)

\* what the teardown calls leave alone
SlotFrame ==
    UNCHANGED <<rendererVars, targetVars, timingVars, gpuQueue, modLast, pc, lastDraw,
                presented, lastArg, triangles, assets, meshes, modTargets, sync>>

\* m_frames.resize(m_maxFrames) and a createSyncObjects and
\* createCommandPoolsAndBuffers that got as far as `frames`
partiallyConstruct(frames) ==
    /\ frameHandles = <<>>
    /\ frameHandles' = frames
    /\ callLog' = <<>>
    /\ lastOp' = "partiallyConstruct"
    /\ lastRes' = "done"
    /\ SlotFrame

\* Renderer::destroySyncObjects
destroySyncObjects ==
    /\ frameHandles # <<>>
    /\ frameHandles' =
         [s \in DOMAIN frameHandles |->
            [h \in DOMAIN frameHandles[s] |->
                IF h \in Range(SyncHandles) THEN Nulled(frameHandles[s][h])
                ELSE frameHandles[s][h]]]
    /\ callLog' = ForEachFrame(frameHandles, 0, SyncHandles)
    /\ lastOp' = "destroySyncObjects"
    /\ lastRes' = "done"
    /\ SlotFrame

\* Renderer::destroyCommandPoolsAndBuffers: the buffer handle is nulled with
\* the pool that owns it
destroyCommandPoolsAndBuffers ==
    /\ frameHandles # <<>>
    /\ frameHandles' =
         [s \in DOMAIN frameHandles |->
            IF frameHandles[s].commandPool # "null"
            THEN [frameHandles[s] EXCEPT !.commandPool = Nulled(@),
                                         !.commandBuffer = "null"]
            ELSE frameHandles[s]]
    /\ callLog' = ForEachFrame(frameHandles, 0, <<"commandPool">>)
    /\ lastOp' = "destroyCommandPoolsAndBuffers"
    /\ lastRes' = "done"
    /\ SlotFrame

\* ------------------------------------------------------------ specification
Next ==
    \/ \E extent \in Extents \cup {ZeroExtent} : init(extent)
    \/ \E extent \in Extents \cup {ZeroExtent} : initAgain(extent)
    \/ cleanup
    \/ cleanupAgain
    \/ destructor
    \/ \E pass \in Modules \cup {NullPass} : registerPass(pass)
    \/ \E callback \in BOOLEAN : setImGuiRenderCallback(callback)
    \/ drawFrameNotInitialized
    \/ drawFrameEnter
    \/ drawFrameWaitFailed
    \/ drawFrameOutOfDate
    \/ drawFrameAcquireFailed
    \/ drawFrameSubmit
    \/ GpuComplete

Spec == Init /\ [][Next]_vars

\* The wait of drawFrame returns once the fence is signaled, and the queue
\* goes on completing what was submitted to it.
drawFrameProceeds == drawFrameOutOfDate \/ drawFrameAcquireFailed \/ drawFrameSubmit

\* what enables drawFrameProceeds
drawFrameCanProceed == pc = "wait" /\ FenceWaitPasses(m_frames, m_currentFrame)

\* drawFrameCanProceed is ENABLED <<drawFrameProceeds>>_vars, an invariant of Spec
CanProceedIsEnabled == drawFrameCanProceed <=> ENABLED <<drawFrameProceeds>>_vars

\* WF_vars(GpuComplete) /\ WF_vars(drawFrameProceeds), the second with its
\* enabling condition written out as drawFrameCanProceed.
FairSpec ==
    /\ Spec
    /\ WF_vars(GpuComplete)
    /\ (<>[]drawFrameCanProceed => []<><<drawFrameProceeds>>_vars)

\* Spec, with creation calls of the rebuild that may fail
ThrowingSpec == Init /\ [][Next \/ drawFrameRebuildThrows]_vars

\* A renderer that is set up once and then draws, where creation calls of
\* the rebuild may fail and the caller catches what drawFrame throws
CatchingNext ==
    \/ \E extent \in Extents \cup {ZeroExtent} : init(extent)
    \/ \E pass \in Modules : registerPass(pass)
    \/ drawFrameEnter
    \/ drawFrameOutOfDate
    \/ drawFrameRebuildThrows
    \/ drawFrameCaught
    \/ drawFrameSubmit
    \/ GpuComplete

CatchingSpec == Init /\ [][CatchingNext]_vars

\* A renderer that is set up once and then draws, with the semaphores of
\* the slots and the presentation engine followed
FollowedNext ==
    \/ \E extent \in Extents \cup {ZeroExtent} : init(extent)
    \/ drawFrameEnter
    \/ drawFrameOutOfDate
    \/ drawFrameSubmit
    \/ ImageReady
    \/ GpuComplete
    \/ PresentBegins

FollowedSpec == FollowedInit /\ [][FollowedNext]_vars

\* The same, where vkQueueSubmit may fail
SubmitFailingNext ==
    \/ \E extent \in Extents \cup {ZeroExtent} : init(extent)
    \/ drawFrameEnter
    \/ drawFrameSubmit
    \/ drawFrameSubmitFails
    \/ ImageReady
    \/ GpuComplete
    \/ PresentBegins

SubmitFailingSpec == FollowedInit /\ [][SubmitFailingNext]_vars

\* A TrianglesRenderPassModule in the hands of any caller
TrianglesNext ==
    \/ \E outcome \in {"VK_SUCCESS"} \cup OnCreateThrowSites : onCreate(outcome)
    \/ \E newExtent \in Extents : onResize(newExtent)
    \/ onDestroy
    \/ TrianglesDestructor

TrianglesSpec == RendererAside /\ [][TrianglesNext]_vars

\* An AssetManager in the hands of any caller
AssetNext ==
    \/ \E path \in Paths :
         \E outcome \in {"VK_SUCCESS", "LoadSMeshV0FromFile", "vkCreateCommandPool",
                         "upload"} : loadMesh(path, outcome)
    \/ \E h \in Handles : getMesh(h)
    \/ \E h \in Handles : addRef(h)
    \/ \E h \in Handles : release(h)
    \/ garbageCollect
    \/ AssetDestructor

AssetSpec == RendererAside /\ [][AssetNext]_vars

\* The two slot teardown functions, called in any order and any number of
\* times on a slot set of which any part has been created
SlotTeardownNext ==
    \/ \E frames \in [Slots -> PartialFrames] : partiallyConstruct(frames)
    \/ destroySyncObjects
    \/ destroyCommandPoolsAndBuffers

\* a renderer just constructed, of any ring size, on some one surface
SlotTeardownInit ==
    /\ Init
    /\ swapImages = 1
    /\ swapExtent = 1
    /\ ~timestampComputeAndGraphics

SlotTeardownSpec ==
    SlotTeardownInit /\ [][SlotTeardownNext]_vars

\* What can be called on a renderer that has drawn nothing, where the
\* creation calls of init may fail
InitThrowingNext ==
    \/ \E extent \in Extents \cup {ZeroExtent} : init(extent)
    \/ \E extent \in Extents \cup {ZeroExtent} : initThrows(extent)
    \/ cleanup
    \/ cleanupAgain
    \/ \E pass \in Modules \cup {NullPass} : registerPass(pass)
    \/ drawFrameNotInitialized
    \/ destructor

\* the renderer until it first draws, with creation calls of init that may fail
InitThrowingSpec ==
    Init /\ [][InitThrowingNext]_vars

\* -------------------------------------------------------------- properties
AcquireResult(log) == log[Index(log, "vkAcquireNextImageKHR")].st

SubmitEvents ==
    {"vkResetCommandBuffer", "vkBeginCommandBuffer", "vkCmdBeginRenderPass",
     "record", "imguiRenderCallback", "vkCmdEndRenderPass", "vkEndCommandBuffer",
     "vkResetFences", "vkQueueSubmit", "vkQueuePresentKHR", "advance",
     "vkCmdResetQueryPool", "vkCmdWriteTimestamp", "vkGetQueryPoolResults",
     "m_gpuTimeMs"}

\* C1: the slot index starts at 0 and every drawFrame call that submits and
\* presents advances it by one modulo the ring size, so it is the number of
\* presented frames modulo N and is 0 again after N of them.
C1_SlotIndexCycles == m_currentFrame = presented % m_maxFrames

C1_Witness ==
    /\ m_maxFrames = MaxRing
    /\ presented = m_maxFrames
    /\ lastRes = "presented"
    /\ m_currentFrame = 0

\* C2: the batches submitted and not yet completed by the GPU never number
\* more than the ring size.
C2_InFlightBounded == Len(gpuQueue) <= m_maxFrames

C2_Witness ==
    /\ m_maxFrames >= 2
    /\ Len(gpuQueue) = m_maxFrames
    /\ pc = "wait"

\* C3: when drawFrame resets a slot's command buffer for recording, that
\* command buffer is not pending on the GPU: the slot has no batch in flight.
C3_ResetOnlyWhenIdle ==
    /\ \A s \in DOMAIN m_frames :
        (m_frames[s].commandBuffer = "pending") <=> (s \in Range(gpuQueue))
    /\ \A i \in 1..Len(callLog) :
        callLog[i].ev = "vkResetCommandBuffer" => callLog[i].st # "pending"

C3_Witness ==
    /\ lastRes = "presented"
    /\ m_maxFrames >= 2
    /\ Len(gpuQueue) = m_maxFrames
    /\ \E i \in 1..Len(callLog) :
        callLog[i].ev = "vkResetCommandBuffer" /\ callLog[i].st = "invalid"

C6_OneOnCreate ==
    /\ (lastOp = "registerPass" /\ lastArg # NullPass /\ m_initialized)
            => /\ Len(callLog) = 1
               /\ callLog[1].ev = "onCreate"
               /\ callLog[1].m = lastArg
    /\ (lastOp = "registerPass" /\ lastArg # NullPass /\ ~m_initialized)
            => callLog = <<>>
    /\ (lastOp = "init" /\ lastRes = "done")
            => \A m \in Modules :
                  Occurrences(m_passes, m) = 1 => CountFor(callLog, "onCreate", m) = 1

C6_Witness ==
    /\ lastOp = "registerPass"
    /\ m_initialized
    /\ lastArg \in Modules
    /\ Occurrences(m_passes, lastArg) = 1
    /\ CountFor(callLog, "onCreate", lastArg) = 1

\* C7: a drawFrame call whose acquire reports out-of-date calls Recreate and
\* then recreateSwapchainDependent, once each, and returns: it records
\* nothing, resets no fence, submits and presents nothing and leaves the slot
\* index where it was.
C7_OutOfDateRebuildsAndDrops ==
    ("vkAcquireNextImageKHR" \in Events(callLog)
        /\ AcquireResult(callLog) = "VK_ERROR_OUT_OF_DATE_KHR")
    => /\ Count(callLog, "Recreate") = 1
       /\ Count(callLog, "recreateSwapchainDependent") = 1
       /\ Index(callLog, "vkAcquireNextImageKHR") < Index(callLog, "Recreate")
       /\ Index(callLog, "Recreate") < Index(callLog, "recreateSwapchainDependent")
       /\ Events(callLog) \cap SubmitEvents = {}
       /\ pc = "idle"
       /\ m_currentFrame = callLog[1].m
       /\ m_frames[m_currentFrame].inFlightFence = "signaled"

C7_Witness ==
    /\ lastRes = "outOfDate"
    /\ "Recreate" \in Events(callLog)
    /\ Len(m_passes) = MaxPasses
    /\ presented >= 1
    /\ m_currentFrame # 0

\* C8: the drawFrame call that follows one that hit an out-of-date acquire
\* finds the fence of the current slot signaled when it reaches its wait.
C8_NoBlockAfterOutOfDate ==
    (pc = "wait" /\ lastDraw = "outOfDate")
        => m_frames[m_currentFrame].inFlightFence = "signaled"

C8_Witness ==
    /\ pc = "wait"
    /\ lastDraw = "outOfDate"
    /\ presented > m_maxFrames
    /\ m_frames[m_currentFrame].inFlightFence = "signaled"

\* the step in which drawFrame returns after an acquire that gave another error
AcquireFailedStep ==
    /\ pc = "wait"
    /\ pc' = "idle"
    /\ "vkAcquireNextImageKHR" \in Events(callLog')
    /\ AcquireResult(callLog') \notin
          {"VK_SUCCESS", "VK_SUBOPTIMAL_KHR", "VK_ERROR_OUT_OF_DATE_KHR"}

\* C9: a drawFrame call whose acquire returns anything but success,
\* suboptimal or out-of-date changes nothing: slot index, slots, pass,
\* framebuffers, depth resources, registry and GPU queue stay as they were
\* and nothing is recorded, submitted or presented.
C9_AcquireFailureChangesNothing ==
    [][AcquireFailedStep =>
          /\ UNCHANGED <<m_currentFrame, m_frames, m_passes, m_initialized,
                         targetVars, timingVars, gpuQueue, modLast, presented>>
          /\ Events(callLog') = {"vkWaitForFences", "vkAcquireNextImageKHR"}]_vars

C9_Witness ==
    /\ lastRes = "acquireFailed"
    /\ AcquireResult(callLog) \in OtherAcquireErrors
    /\ gpuQueue # <<>>
    /\ m_passes # <<>>

\* C10: a drawFrame call whose fence wait fails does nothing else: no
\* acquire, no recording, no fence reset, no submit, no present, no rebuild,
\* and the slot index stays where it was.
C10_WaitFailureReturnsEarly ==
    (callLog # <<>> /\ callLog[1].ev = "vkWaitForFences"
                    /\ callLog[1].st # "VK_SUCCESS")
    => /\ Len(callLog) = 1
       /\ pc = "idle"
       /\ m_currentFrame = callLog[1].m

C10_Witness ==
    /\ lastRes = "waitFailed"
    /\ callLog = WaitError
    /\ m_frames[m_currentFrame].inFlightFence = "unsignaled"

\* the modules whose record the call invoked, in the order of the calls
Recorded(log) ==
    LET recs == SelectSeq(log, LAMBDA e : e.ev = "record")
    IN  [i \in 1..Len(recs) |-> recs[i].m]

Positions(log, e) == {i \in 1..Len(log) : log[i].ev = e}

\* C12: a drawFrame call that begins the render pass invokes record once per
\* registry entry, in registration order, all after begin-pass and before
\* end-pass; the overlay callback, when one is set, is invoked once, after
\* every record and before end-pass. A call that does not begin the render
\* pass invokes no record and no overlay callback.
C12_RecordInRegistrationOrder ==
    IF "vkCmdBeginRenderPass" \in Events(callLog)
    THEN /\ Recorded(callLog) = m_passes
         /\ Count(callLog, "vkCmdBeginRenderPass") = 1
         /\ Count(callLog, "vkCmdEndRenderPass") = 1
         /\ \A i \in Positions(callLog, "record") :
               /\ Index(callLog, "vkCmdBeginRenderPass") < i
               /\ i < Index(callLog, "vkCmdEndRenderPass")
         /\ Count(callLog, "imguiRenderCallback") = (IF m_imguiRenderCallback THEN 1 ELSE 0)
         /\ \A j \in Positions(callLog, "imguiRenderCallback") :
               /\ Index(callLog, "vkCmdBeginRenderPass") < j
               /\ j < Index(callLog, "vkCmdEndRenderPass")
               /\ \A i \in Positions(callLog, "record") : i < j
    ELSE Events(callLog) \cap {"record", "imguiRenderCallback"} = {}

C12_Witness ==
    /\ lastRes = "presented"
    /\ Recorded(callLog) = <<2, 1>>
    /\ m_passes = <<2, 1>>
    /\ "imguiRenderCallback" \in Events(callLog)
    /\ modLast[1] = "onCreate"
    /\ presented >= 2

\* C13 as stated: onResize is only ever delivered to a module whose most
\* recent lifecycle notification is onCreate or onResize.
C13_ResizeOnlyWhenCreated ==
    \A i \in Positions(callLog, "onResize") : callLog[i].st \in {"onCreate", "onResize"}

\* C13: onResize is delivered only inside recreateSwapchainDependent, to a
\* module that this rebuild has already sent onDestroy, and the next thing the
\* renderer does is send the same module onCreate. The first onResize a module
\* gets in a rebuild finds its most recent notification to be onDestroy; a
\* module that is in the registry twice gets its second one right after the
\* onCreate of the first entry.
C13_ResizeBetweenDestroyAndCreate ==
    \A i \in Positions(callLog, "onResize") :
        LET m == callLog[i].m IN
        /\ "recreateSwapchainDependent" \in Events(callLog)
        /\ Index(callLog, "recreateSwapchainDependent") < i
        /\ \E j \in 1..(i - 1) : callLog[j].ev = "onDestroy" /\ callLog[j].m = m
        /\ i < Len(callLog)
        /\ callLog[i + 1].ev = "onCreate"
        /\ callLog[i + 1].m = m
        /\ callLog[i].st = (IF \E j \in 1..(i - 1) : callLog[j].ev = "onResize"
                                                      /\ callLog[j].m = m
                            THEN "onCreate" ELSE "onDestroy")

C13_Witness ==
    /\ lastRes = "outOfDate"
    /\ Len(m_passes) = MaxPasses
    /\ \A m \in Modules :
          /\ Occurrences(m_passes, m) = 1
          /\ \E i \in Positions(callLog, "onResize") :
                callLog[i].m = m /\ callLog[i].st = "onDestroy"

\* C14: once init or recreateSwapchainDependent has run createDepthResources,
\* the renderer holds as many depth image, memory and view triples as the
\* surface reports image views, whatever the number was before.
C14_DepthCountIsImageCount ==
    "createDepthResources" \in Events(callLog) => m_depthImageViews = swapImages

C14_Witness ==
    /\ lastRes = "outOfDate"
    /\ "Recreate" \in Events(callLog)
    /\ At(callLog, "Recreate").m = 1
    /\ swapImages = 2
    /\ m_depthImageViews = 2

TargetSteps ==
    {"createDepthResources", "createMainRenderPass", "createFramebuffers",
     "destroyFramebuffers", "destroyDepthResources", "destroyRenderPass"}

\* C16: at every step of init, recreateSwapchainDependent and cleanup that
\* creates or destroys the main pass, the framebuffers or the depth
\* resources, the GPU has completed every batch submitted to it.
C16_TargetsChangeWhenIdle ==
    \A i \in 1..Len(callLog) : callLog[i].ev \in TargetSteps => callLog[i].m = 0

C16_Witness ==
    /\ lastRes = "outOfDate"
    /\ "vkDeviceWaitIdle" \in Events(callLog)
    /\ At(callLog, "vkDeviceWaitIdle").m = m_maxFrames - 1
    /\ m_maxFrames >= 2
    /\ TargetSteps \subseteq Events(callLog)
    /\ gpuQueue = <<>>

\* a call of init on an initialized renderer
InitOnInitialized ==
    /\ m_initialized
    /\ pc = "idle"
    /\ lastOp' = "init"
    /\ <<lastOp, lastRes, lastArg, callLog>>' # <<lastOp, lastRes, lastArg, callLog>>

\* C19: init, with or without an extent, on an initialized renderer creates
\* nothing, notifies no module and leaves the renderer, its render targets,
\* the modules and the GPU queue as they were.
C19_InitIdempotent ==
    [][InitOnInitialized =>
          /\ UNCHANGED <<rendererVars, targetVars, timingVars, gpuQueue, modLast,
                         presented>>
          /\ callLog' = <<>>]_vars

C19_Witness ==
    /\ lastOp = "init"
    /\ callLog = <<>>
    /\ lastArg # ZeroExtent
    /\ lastArg # m_extent
    /\ m_initialized
    /\ m_passes # <<>>
    /\ gpuQueue # <<>>

\* C20 as stated: after init(extent) with an extent whose width and height
\* are not 0, getExtent() is that extent; after init() or init of a zero
\* extent it is the extent of the swapchain.
C20_InitExtentOverrides ==
    (lastOp = "init" /\ "createFramebuffers" \in Events(callLog))
    => m_extent = (IF lastArg # ZeroExtent THEN lastArg ELSE swapExtent)

\* C17 as stated: when a drawFrame call takes timestamps that a frame wrote,
\* they are those of the slot whose fence the call waited on, and that frame
\* was submitted at least m_maxFrames presented frames before this one.
C17_HarvestOneCycleBehind ==
    \A i \in Positions(callLog, "m_gpuTimeMs") :
        callLog[i].m # NoFrame
        => /\ At(callLog, "vkGetQueryPoolResults").m = At(callLog, "vkWaitForFences").m
           /\ presented - callLog[i].m >= m_maxFrames

TimestampEvents ==
    {"vkCmdResetQueryPool", "vkCmdWriteTimestamp", "vkGetQueryPoolResults",
     "m_gpuTimeMs"}

\* C18: on a device without timestampComputeAndGraphics, m_gpuTimeMs is 0
\* after init and after every drawFrame call, and no call records a
\* timestamp command or reads timestamps back.
C18_NoTimestampsNoTime ==
    ~timestampComputeAndGraphics
    => /\ m_gpuTimeMs = 0
       /\ ~m_timestampsSupported
       /\ Events(callLog) \cap TimestampEvents = {}

C18_Witness ==
    /\ ~timestampComputeAndGraphics
    /\ m_initialized
    /\ m_maxFrames >= 2
    /\ lastRes = "presented"
    /\ presented > m_maxFrames
    /\ gpuQueue = <<>>
    /\ m_gpuTimeMs = 0

\* C11 as stated: whatever the fence wait, the acquire, the rebuild, the
\* submit and the present come back with, drawFrame returns to its caller
\* and no exception leaves it.
C11_DrawFrameNeverThrows ==
    lastOp = "drawFrame" => "throw" \notin Events(callLog)

\* a call of cleanup, or the destructor, on a renderer that is not initialized
CleanupOnUninitialized ==
    /\ ~m_initialized
    /\ lastOp' \in {"cleanup", "~Renderer"}

\* C21: cleanup on a renderer that is not initialized (a second cleanup, the
\* destructor after cleanup, cleanup before any init) destroys nothing,
\* delivers no onDestroy and leaves the renderer, its render targets, the
\* modules and the GPU queue as they were.
C21_CleanupIdempotent ==
    [][CleanupOnUninitialized =>
          /\ UNCHANGED <<rendererVars, targetVars, timingVars, gpuQueue, modLast,
                         presented>>
          /\ callLog' = <<>>]_vars

C21_Witness ==
    /\ lastOp = "~Renderer"
    /\ callLog = <<>>
    /\ ~m_initialized
    /\ m_passes # <<>>
    /\ \A i \in 1..Len(m_passes) : modLast[m_passes[i]] = "onDestroy"
    /\ presented > 0

\* the calls that create a handle, each with the call that destroys it
CreateDestroy ==
    {<<"vkCreateSemaphore", "vkDestroySemaphore">>, <<"vkCreateFence", "vkDestroyFence">>,
     <<"vkCreateCommandPool", "vkDestroyCommandPool">>,
     <<"CreateImage2D", "vkDestroyImage">>, <<"CreateImage2D", "vkFreeMemory">>,
     <<"CreateImageView2D", "vkDestroyImageView">>,
     <<"vkCreateFramebuffer", "vkDestroyFramebuffer">>,
     <<"vkCreateRenderPass", "vkDestroyRenderPass">>,
     <<"vkCreateQueryPool", "vkDestroyQueryPool">>}

\* the handles the renderer holds, by kind
LiveCounts ==
    [fences |-> Cardinality(LiveSlots(m_frames, "inFlightFence")),
     pools |-> Cardinality(LiveSlots(m_frames, "commandBuffer")),
     depth |-> Cardinality(LiveDepth),
     framebuffers |-> Cardinality(LiveFramebuffers),
     pass |-> Cardinality(LivePass),
     queryPool |-> Cardinality(LivePool),
     passes |-> Len(m_passes)]

\* what a log says was destroyed, in the same terms
DestroyedCounts(log) ==
    [fences |-> Count(log, "vkDestroyFence"),
     pools |-> Count(log, "vkDestroyCommandPool"),
     depth |-> Count(log, "vkDestroyImageView"),
     framebuffers |-> Count(log, "vkDestroyFramebuffer"),
     pass |-> Count(log, "vkDestroyRenderPass"),
     queryPool |-> Count(log, "vkDestroyQueryPool"),
     passes |-> Count(log, "onDestroy")]

\* no handle is passed twice to the call that destroys it; a slot has two
\* semaphores
OncePerHandle(log) ==
    LET destroys == {i \in 1..Len(log) :
                        \E cd \in CreateDestroy : log[i].ev = cd[2]}
        single == {i \in destroys : log[i].ev # "vkDestroySemaphore"}
    IN  /\ Cardinality({<<log[i].ev, log[i].m>> : i \in single}) = Cardinality(single)
        /\ \A s \in Slots : CountFor(log, "vkDestroySemaphore", s) \in {0, 2}

NoneLive ==
    [fences |-> 0, pools |-> 0, depth |-> 0, framebuffers |-> 0, pass |-> 0,
     queryPool |-> 0, passes |-> Len(m_passes)]

\* a cleanup call that tears an initialized renderer down
CleanupStep == m_initialized /\ lastOp' = "cleanup"

\* the init call that directly follows such a cleanup
InitAfterCleanup ==
    /\ ~m_initialized
    /\ lastOp = "cleanup"
    /\ "vkDeviceWaitIdle" \in Events(callLog)
    /\ lastOp' = "init"

\* C22: cleanup destroys every handle the renderer holds exactly once and
\* leaves none; the init that follows creates as many handles of every kind
\* as that cleanup destroyed, stores none of them over a live handle, and
\* the renderer then holds as many slots' fences and pools, depth resources,
\* framebuffers and modules as it held before the cleanup.
C22_CleanupInitRoundTrip ==
    [][/\ CleanupStep =>
            /\ DestroyedCounts(callLog') = LiveCounts
            /\ OncePerHandle(callLog')
            /\ LiveCounts' = NoneLive
       /\ InitAfterCleanup =>
            /\ \A cd \in CreateDestroy : Count(callLog', cd[1]) = Count(callLog, cd[2])
            /\ \A i \in 1..Len(callLog') :
                  (\E cd \in CreateDestroy : callLog'[i].ev = cd[1])
                  => callLog'[i].st = "null"
            /\ LiveCounts' = DestroyedCounts(callLog)
            /\ Count(callLog', "onCreate") = Count(callLog, "onDestroy")]_vars

C22_Witness ==
    /\ lastOp = "init"
    /\ m_initialized
    /\ "vkCreateFramebuffer" \in Events(callLog)
    /\ Count(callLog, "vkCreateQueryPool") = 1
    /\ Count(callLog, "vkCreateFence") = MaxRing
    /\ Count(callLog, "onCreate") = MaxPasses
    /\ \E m \in Modules : \E i \in 1..Len(callLog) :
          callLog[i].ev = "onCreate" /\ callLog[i].m = m /\ callLog[i].st = "onDestroy"
    /\ presented > 0

\* a drawFrame call returns, having asked for an image
DrawFrameAcquired ==
    /\ pc = "wait"
    /\ pc' = "idle"
    /\ "vkAcquireNextImageKHR" \in Events(callLog')

\* C23: a drawFrame call whose acquire reports out-of-date presents nothing
\* and delivers, within the call, one onResize and one onCreate per
\* registration of every module; a call whose acquire succeeds presents
\* exactly one frame and delivers no onResize and no onCreate. So K calls of
\* which one is stale and the others succeed present K-1 frames, skip one,
\* and give every module registered once exactly one onResize and onCreate.
C23_OneStaleCallSkipsOneFrame ==
    [][DrawFrameAcquired =>
         IF AcquireResult(callLog') = "VK_ERROR_OUT_OF_DATE_KHR"
         THEN /\ presented' = presented
              /\ "vkQueuePresentKHR" \notin Events(callLog')
              /\ \A m \in Modules :
                    /\ CountFor(callLog', "onResize", m) = Occurrences(m_passes, m)
                    /\ CountFor(callLog', "onCreate", m) = Occurrences(m_passes, m)
         ELSE AcquireResult(callLog') \in {"VK_SUCCESS", "VK_SUBOPTIMAL_KHR"}
              => /\ presented' = presented + 1
                 /\ Count(callLog', "vkQueuePresentKHR") = 1
                 /\ {"onResize", "onCreate"} \cap Events(callLog') = {}]_vars

\* on ring size 2 a call was stale after two frames had been presented, and
\* both modules, each registered once, were told once
C23_Witness ==
    /\ lastRes = "outOfDate"
    /\ m_maxFrames = 2
    /\ presented = 2
    /\ Len(m_passes) = MaxPasses
    /\ \A m \in Range(m_passes) :
          /\ Occurrences(m_passes, m) = 1
          /\ CountFor(callLog, "onResize", m) = 1
          /\ CountFor(callLog, "onCreate", m) = 1

\* an init call that an exception leaves
InitThrew == lastOp' = "init" /\ "throw" \in Events(callLog')

\* a drawFrame or registerPass call on a renderer that is not initialized
CallOnUninitialized ==
    /\ ~m_initialized
    /\ lastOp' \in {"drawFrame", "registerPass"}

\* C24: an init in which a creation call fails ends with the exception, has
\* told no module onCreate and leaves the renderer uninitialized; on an
\* uninitialized renderer drawFrame does nothing and registerPass stores the
\* module without telling it onCreate, and neither initializes the renderer.
C24_FailedInitStaysUninitialized ==
    [][/\ InitThrew =>
            /\ ~m_initialized'
            /\ {"onCreate", "createTimestampQueryPool"} \cap Events(callLog') = {}
            /\ callLog'[Len(callLog')].ev = "throw"
            /\ UNCHANGED <<modLast, m_passes>>
       /\ CallOnUninitialized =>
            /\ ~m_initialized'
            /\ callLog' = <<>>
            /\ UNCHANGED modLast
            /\ lastOp' = "drawFrame" =>
                  UNCHANGED <<rendererVars, targetVars, timingVars, gpuQueue, presented>>]_vars

\* a module is registered after an init that failed past the render pass
C24_Witness ==
    /\ lastOp = "registerPass"
    /\ lastArg \in Modules
    /\ ~m_initialized
    /\ m_mainRenderPass = "live"
    /\ callLog = <<>>
    /\ modLast[lastArg] = "none"
    /\ \E s \in DOMAIN m_frames : m_frames[s].inFlightFence # "null"

\* the events of a log from position i on, each with the module it went to
\* if it is a notification
Calls(log, i) ==
    [k \in 1..(Len(log) - i + 1) |->
        LET c == log[i + k - 1] IN
        IF c.ev \in {"onCreate", "onResize", "onDestroy"} THEN <<c.ev, c.m>>
                                                          ELSE <<c.ev>>]

\* es, each as an event that is not a notification
Plain(es) == [k \in 1..Len(es) |-> <<es[k]>>]

\* the notifications es to every module of passes, module by module
RECURSIVE Notified(_, _)
Notified(passes, es) ==
    IF passes = <<>> THEN <<>>
    ELSE [k \in 1..Len(es) |-> <<es[k], Head(passes)>>] \o Notified(Tail(passes), es)

\* C29: a rebuild is, in this order: the wait for the device; onDestroy to
\* every module in registration order; the destruction of framebuffers,
\* depth resources and pass; the re-query of format and extent; the creation
\* of depth resources, pass and framebuffers; and then, module by module in
\* registration order, onResize followed by onCreate.
C29_RebuildOrder ==
    "recreateSwapchainDependent" \in Events(callLog)
    => Calls(callLog, Index(callLog, "recreateSwapchainDependent")) =
          Plain(<<"recreateSwapchainDependent", "vkDeviceWaitIdle">>) \o
          Notified(m_passes, <<"onDestroy">>) \o
          Plain(<<"destroyFramebuffers", "destroyDepthResources", "destroyRenderPass",
                  "GetImageFormat", "GetExtent",
                  "createDepthResources", "createMainRenderPass", "createFramebuffers">>) \o
          Notified(m_passes, <<"onResize", "onCreate">>)

C29_Witness ==
    /\ "recreateSwapchainDependent" \in Events(callLog)
    /\ Len(m_passes) = MaxPasses
    /\ m_passes[1] # m_passes[2]
    /\ At(callLog, "destroyFramebuffers").m = 0
    /\ Len(gpuQueue) = 0
    /\ presented > 0

\* the steps of a log that are not Vulkan calls on single handles
StepsOf(log) ==
    SelectSeq(Calls(log, 1),
              LAMBDA c : c[1] \in Range(CleanupSteps) \cup {"vkDeviceWaitIdle", "onDestroy"})

\* C30: cleanup of an initialized renderer waits for the device, then tells
\* every registered module onDestroy in registration order, and only then
\* destroys the timestamp pool, the command pools, the sync objects, the
\* framebuffers, the depth resources and the pass, no handle before the
\* last onDestroy; it leaves the renderer uninitialized and the registry as
\* it was.
C30_CleanupOrder ==
    [][CleanupStep =>
          /\ StepsOf(callLog') =
                Plain(<<"vkDeviceWaitIdle">>) \o Notified(m_passes, <<"onDestroy">>) \o
                Plain(<<"destroyTimestampQueryPool", "destroyCommandPoolsAndBuffers",
                        "destroySyncObjects", "destroyFramebuffers",
                        "destroyDepthResources", "destroyRenderPass">>)
          /\ \A i, j \in 1..Len(callLog') :
                (callLog'[i].ev = "onDestroy" /\ callLog'[j].ev \notin {"vkDeviceWaitIdle", "onDestroy"})
                => i < j
          /\ ~m_initialized'
          /\ m_passes' = m_passes]_vars

C30_Witness ==
    /\ lastOp = "cleanup"
    /\ ~m_initialized
    /\ Len(m_passes) = MaxPasses
    /\ m_passes[1] # m_passes[2]
    /\ Count(callLog, "onDestroy") = MaxPasses
    /\ Count(callLog, "vkDestroyFramebuffer") = 2
    /\ Count(callLog, "vkDestroyQueryPool") = 1
    /\ callLog[1].m > 0

TrianglesDestroyCalls == {"vkDestroyPipelineLayout", "vkDestroyBuffer", "vkFreeMemory"}

\* C25: after onDestroy, and after the destructor, the module's pipeline
\* layout and default instance buffer handles are null, and every handle
\* such a call destroys was live: none is destroyed a second time, however
\* often onCreate, onResize, onDestroy and the destructor are called.
C25_OnDestroyReleasesOnce ==
    /\ lastOp \in {"onDestroy", "~TrianglesRenderPassModule"}
       => /\ triangles.m_pipelineLayout = "null"
          /\ triangles.m_defaultInstanceVB = [buffer |-> "null", memory |-> "null"]
    /\ \A i \in 1..Len(callLog) :
          callLog[i].ev \in TrianglesDestroyCalls => callLog[i].st = "live"

\* a second onDestroy in a row, after MaxCycles onCreate calls the last of
\* which had built everything: it finds nothing to destroy
C25_Witness ==
    /\ lastOp = "onDestroy"
    /\ triangles.creates = MaxCycles
    /\ triangles.released = MaxCycles
    /\ triangles.m_device = "live"
    /\ Events(callLog) = {"m_pipeline.destroy"}

\* the entries stored under a path
StoredFor(m_meshesNow, path) ==
    {id \in DOMAIN m_meshesNow : m_meshesNow[id].path = path}

\* the handles the manager has handed out for an asset
IssuedFor(asset) == {i.h : i \in {j \in meshes.issued : j.asset = asset}}

\* C26: a loadMesh call on a path whose entry is stored, whatever its count,
\* returns the handle that entry was first handed out with, uploads nothing
\* and raises the entry's count by exactly 1, changing nothing else; a
\* loadMesh call on a path with no entry that succeeds uploads once and
\* returns a valid handle, never handed out before, of an entry with count 1.
C26_LoadMeshCachesByPath ==
    [][lastOp' = "loadMesh" =>
        LET path == meshes'.path
            h == meshes'.handle
            stored == StoredFor(assets.m_meshes, path)
        IN  IF stored # {}
            THEN \A id \in stored :
                   /\ {h} = IssuedFor(assets.m_meshes[id].asset)
                   /\ h.id = id
                   /\ "upload" \notin Events(callLog')
                   /\ assets' = [assets EXCEPT !.m_meshes[id].refCount = @ + 1]
                   /\ meshes'.issued = meshes.issued
            ELSE /\ isValid(h) <=> "uploaded" \in {callLog'[i].st : i \in 1..Len(callLog')}
                 /\ ~isValid(h) => assets' = assets /\ meshes'.issued = meshes.issued
                 /\ isValid(h) =>
                      /\ h \notin {i.h : i \in meshes.issued}
                      /\ Cardinality({i \in 1..Len(callLog') : callLog'[i].ev = "upload"}) = 1
                      /\ DOMAIN assets'.m_meshes = DOMAIN assets.m_meshes \cup {h.id}
                      /\ \A id \in DOMAIN assets.m_meshes :
                            assets'.m_meshes[id] = assets.m_meshes[id]
                      /\ assets'.m_meshes[h.id].refCount = 1
                      /\ assets'.m_meshes[h.id].path = path
                      /\ StoredFor(assets'.m_meshes, path) = {h.id}
    ]_vars

\* a loadMesh that finds the entry of its path with count 0, not yet
\* collected, and returns its handle with the count back at 1
C26_Witness ==
    /\ lastOp = "loadMesh"
    /\ isValid(meshes.handle)
    /\ Events(callLog) = {"addRef"}
    /\ assets.m_meshes[meshes.handle.id].refCount = 1
    /\ meshes.owed[assets.m_meshes[meshes.handle.id].asset] = 1

\* C27: garbageCollect destroys and removes exactly the entries whose count
\* is 0, with the path-cache entries of their paths, and leaves every other
\* entry and cache entry as it was; an asset it destroys has not been
\* acquired more often than released.
C27_CollectsOnlyUnreferenced ==
    [][lastOp' = "garbageCollect" =>
        LET dead == {id \in DOMAIN assets.m_meshes : assets.m_meshes[id].refCount = 0}
            gone == {assets.m_meshes[id].asset : id \in dead}
        IN  /\ DOMAIN assets'.m_meshes = DOMAIN assets.m_meshes \ dead
            /\ \A id \in DOMAIN assets'.m_meshes :
                  /\ assets'.m_meshes[id] = assets.m_meshes[id]
                  /\ assets'.m_meshes[id].refCount > 0
            /\ DOMAIN assets'.m_meshPathCache =
                  DOMAIN assets.m_meshPathCache \ {assets.m_meshes[id].path : id \in dead}
            /\ \A path \in DOMAIN assets'.m_meshPathCache :
                  /\ assets'.m_meshPathCache[path] = assets.m_meshPathCache[path]
                  /\ assets'.m_meshPathCache[path].id \in DOMAIN assets'.m_meshes
            /\ meshes'.destroyed = meshes.destroyed \cup gone
            /\ gone \cap meshes.destroyed = {}
            /\ {callLog'[i].m : i \in 1..Len(callLog')} = gone
            /\ Len(callLog') = Cardinality(gone)
            /\ \A asset \in gone : meshes.owed[asset] <= 0
            /\ assets'.m_nextID = assets.m_nextID
    ]_vars

\* a collection that destroys one asset, released as often as acquired, and
\* keeps another that is still referenced
C27_Witness ==
    /\ lastOp = "garbageCollect"
    /\ Len(callLog) = 1
    /\ meshes.owed[callLog[1].m] = 0
    /\ \E id \in DOMAIN assets.m_meshes :
          /\ assets.m_meshes[id].refCount > 0
          /\ meshes.owed[assets.m_meshes[id].asset] > 0

\* the handles that refer to an entry that is stored: those handed out for
\* an asset not destroyed since
Current == {i.h : i \in {j \in meshes.issued : j.asset \notin meshes.destroyed}}

\* C28: getMesh(h) returns an asset exactly when h was handed out for an
\* asset that has not been collected, and then that asset; for the invalid
\* handle and for the handle of a collected asset it returns nullptr. No
\* handle is handed out for two assets.
C28_GetMeshResolvesCurrentHandles ==
    /\ lastOp = "getMesh" =>
          /\ meshes.asset # 0 <=> meshes.h \in Current
          /\ meshes.asset # 0 => [h |-> meshes.h, asset |-> meshes.asset] \in meshes.issued
          /\ ~isValid(meshes.h) => meshes.asset = 0
    /\ \A i, j \in meshes.issued : i.h = j.h => i = j

\* getMesh on the handle of a collected asset, while an asset loaded later
\* from the same path is stored, returns nullptr
C28_Witness ==
    /\ lastOp = "getMesh"
    /\ meshes.asset = 0
    /\ \E i, j \in meshes.issued :
          /\ i.h = meshes.h
          /\ i.asset \in meshes.destroyed
          /\ j.asset > i.asset
          /\ j.h \in Current
          /\ assets.m_meshes[j.h.id].path = 1
          /\ Cardinality(DOMAIN assets.m_meshes) = 1

\* C32: only a drawFrame call that submits stores a GPU time, and only when
\* timing is supported, the ring has more than one slot, the read-back of
\* the previous slot's two queries returns VK_SUCCESS and the end timestamp
\* is past the start; every other step leaves m_gpuTimeMs as it was.
C32_GpuTimeStoredOnlyOnHarvest ==
    [][(\/ m_gpuTimeMs' # m_gpuTimeMs
        \/ callLog' # callLog /\ "m_gpuTimeMs" \in Events(callLog'))
       => /\ pc = "wait"
          /\ lastRes' = "presented"
          /\ "vkQueueSubmit" \in Events(callLog')
          /\ Timed
          /\ m_maxFrames > 1
          /\ Ev("vkGetQueryPoolResults", PrevSlot(m_currentFrame, m_maxFrames),
                "VK_SUCCESS") \in Range(callLog')
          /\ m_gpuTimeMs' > 0]_vars

\* a frame is presented whose read-back returned VK_SUCCESS with an end
\* timestamp not past the start, after an earlier frame had stored a time:
\* the stored time is still there
C32_Witness ==
    /\ lastRes = "presented"
    /\ m_gpuTimeMs > 0
    /\ "m_gpuTimeMs" \notin Events(callLog)
    /\ \E i \in 1..Len(callLog) :
          callLog[i].ev = "vkGetQueryPoolResults" /\ callLog[i].st = "VK_SUCCESS"

\* C40: drawFrame on a renderer that is not initialized, whether init was
\* never called, cleanup has run or init has thrown, returns at once: no
\* fence wait, acquire, record, submit or present, no module is called, and
\* the slot index, the slots, the render targets, the registry, the timing
\* state and the GPU queue are as before.
C40_DrawFrameUninitializedNoop ==
    [][(~m_initialized /\ lastOp' = "drawFrame")
       => /\ callLog' = <<>>
          /\ pc' = "idle"
          /\ UNCHANGED <<rendererVars, targetVars, timingVars, gpuQueue, modLast,
                         presented, otherObjects>>]_vars

\* drawFrame has returned on a renderer whose init threw after creating
\* the render pass and some of a slot's handles
C40_Witness ==
    /\ lastOp = "drawFrame"
    /\ lastRes = "noop"
    /\ ~m_initialized
    /\ callLog = <<>>
    /\ m_mainRenderPass = "live"
    /\ \E s \in DOMAIN m_frames : m_frames[s].inFlightFence = "signaled"
    /\ \E s \in DOMAIN m_frames : m_frames[s].commandBuffer = "null"

\* the step of a drawFrame call that meets a stale surface and rebuilds
RebuildStep == pc = "wait" /\ lastRes' = "outOfDate"

\* the Vulkan calls that create, destroy or reset what a slot holds, and the
\* timestamp query pool
SlotCalls ==
    {"vkCreateSemaphore", "vkDestroySemaphore", "vkCreateFence", "vkDestroyFence",
     "vkResetFences", "vkCreateCommandPool", "vkDestroyCommandPool",
     "vkAllocateCommandBuffers", "vkResetCommandBuffer", "vkCreateQueryPool",
     "vkDestroyQueryPool", "createSyncObjects", "destroySyncObjects",
     "createCommandPoolsAndBuffers", "destroyCommandPoolsAndBuffers",
     "createTimestampQueryPool", "destroyTimestampQueryPool"}

\* what a rebuild has no part in: the ring size, the slot index, the
\* registry, the slots that exist, each slot's command buffer handle and the
\* query pool
SlotsKept ==
    /\ UNCHANGED <<m_maxFrames, m_currentFrame, m_passes, m_timestampsSupported>>
    /\ DOMAIN m_frames' = DOMAIN m_frames
    /\ \A s \in DOMAIN m_frames :
          (m_frames'[s].commandBuffer = "null") <=> (m_frames[s].commandBuffer = "null")
    /\ DOMAIN timestamps' = DOMAIN timestamps
    /\ SlotCalls \cap Events(callLog') = {}

\* C34 as stated: after the rebuild every slot's fence is the same fence in
\* the same state as before it, with the rest of the slot set, the slot
\* index and the registry.
C34_RebuildLeavesFenceStates ==
    [][RebuildStep =>
          /\ SlotsKept
          /\ \A s \in DOMAIN m_frames :
                m_frames'[s].inFlightFence = m_frames[s].inFlightFence]_vars

\* C34: the rebuild creates, destroys and resets nothing a slot holds: the
\* ring size, the slots, their handles, the query pool, the slot index and
\* the registry are as before. A fence is in the state it was in, except
\* that the fence of a slot whose batch was in flight is signaled afterwards:
\* the rebuild waits for the device to be idle.
C34_RebuildKeepsSlotHandles ==
    [][RebuildStep =>
          /\ SlotsKept
          /\ \A s \in DOMAIN m_frames :
                m_frames'[s].inFlightFence =
                    IF s \in Range(gpuQueue) THEN "signaled"
                    ELSE m_frames[s].inFlightFence]_vars

\* a rebuild that started with a batch in flight and two modules registered
C34_Witness ==
    /\ lastRes = "outOfDate"
    /\ m_maxFrames >= 2
    /\ Len(m_passes) = MaxPasses
    /\ \E i \in 1..Len(callLog) :
          callLog[i].ev = "vkDeviceWaitIdle" /\ callLog[i].m > 0
    /\ \A s \in DOMAIN m_frames : m_frames[s].inFlightFence = "signaled"

\* The onCreate or onDestroy a module had received last when the i-th event
\* of the log reached it. The event carries the module's most recent
\* notification; when that is an onResize, it is what the module had
\* received before that onResize.
PriorLifecycle(log, i) ==
    IF log[i].st = "onResize"
    THEN LET resized == {j \in 1..(i - 1) : log[j].ev = "onResize" /\ log[j].m = log[i].m}
         IN  IF resized = {} THEN "onResize"
             ELSE log[CHOOSE j \in resized : \A k \in resized : k <= j].st
    ELSE log[i].st

\* C35: the onCreate and onDestroy notifications of a module that is in the
\* registry once alternate, starting with onCreate: an onCreate reaches a
\* module that has received nothing yet or whose last such notification was
\* onDestroy, an onDestroy reaches a module whose last one was onCreate.
C35_CreateDestroyAlternate ==
    \A i \in 1..Len(callLog) :
        (callLog[i].ev \in {"onCreate", "onDestroy"}
            /\ Occurrences(m_passes, callLog[i].m) = 1)
        => PriorLifecycle(callLog, i) =
              (IF callLog[i].ev = "onDestroy" THEN "onCreate"
               ELSE IF PriorLifecycle(callLog, i) = "none" THEN "none" ELSE "onDestroy")

\* a re-init after a cleanup, the last drawFrame call before which had
\* rebuilt: it tells onCreate to a module registered once that has been
\* created, destroyed and created by the rebuild and destroyed by cleanup
C35_Witness ==
    /\ lastOp = "init"
    /\ lastRes = "done"
    /\ lastDraw = "outOfDate"
    /\ \E i \in 1..Len(callLog) :
          /\ callLog[i].ev = "onCreate"
          /\ callLog[i].st = "onDestroy"
          /\ Occurrences(m_passes, callLog[i].m) = 1

\* the handles of the sequence hs that the slot set holds, as <<slot, handle>>
HeldHandles(frames, hs) ==
    {<<s, h>> \in (DOMAIN frames) \X Range(hs) : frames[s][h] # "null"}

\* the handles the calls of a teardown log were made on
DestroyedHandles(log) == {<<log[i].m, log[i].handle>> : i \in 1..Len(log)}

\* a teardown step: what it goes through and what it also nulls
TeardownStep(op, hs, also) ==
    lastOp' = op =>
        /\ DestroyedHandles(callLog') = HeldHandles(frameHandles, hs)
        /\ Len(callLog') = Cardinality(HeldHandles(frameHandles, hs))
        /\ \A i \in 1..Len(callLog') : callLog'[i].st = "live"
        /\ DOMAIN frameHandles' = DOMAIN frameHandles
        /\ \A s \in DOMAIN frameHandles :
              /\ \A h \in Range(hs) \cup also : frameHandles'[s][h] = "null"
              /\ \A h \in DOMAIN frameHandles[s] \ (Range(hs) \cup also) :
                    frameHandles'[s][h] = frameHandles[s][h]

\* C33: on a slot set of which any handles have been created,
\* destroySyncObjects makes one destroy call for each semaphore and fence
\* that is held and none for a null one, and leaves all of them null;
\* destroyCommandPoolsAndBuffers does the same for the command pools and
\* nulls the command buffers with them; neither touches the other's
\* handles. A second call therefore destroys nothing.
C33_TeardownOfPartialSlots ==
    [][/\ TeardownStep("destroySyncObjects",
                       <<"imageAcquiredSemaphore", "renderFinishedSemaphore",
                         "inFlightFence">>, {})
       /\ TeardownStep("destroyCommandPoolsAndBuffers", <<"commandPool">>,
                       {"commandBuffer"})]_vars

\* destroySyncObjects on a slot set that held nothing but one slot's
\* render-finished semaphore and, in some slot, a command pool without a
\* command buffer: one call was made
C33_Witness ==
    /\ lastOp = "destroySyncObjects"
    /\ m_maxFrames = MaxRing
    /\ Len(callLog) = 1
    /\ callLog[1].handle = "renderFinishedSemaphore"
    /\ \E s \in DOMAIN frameHandles :
          frameHandles[s].commandPool = "live" /\ frameHandles[s].commandBuffer = "null"

C39_NoRecordAfterFailedRebuild ==
    "vkCmdBeginRenderPass" \in Events(callLog)
    => /\ \A i \in 1..Len(callLog) :
             callLog[i].ev = "record" => callLog[i].st # "onDestroy"
       /\ m_mainRenderPass = "live"
       /\ At(callLog, "vkCmdBeginRenderPass").m \in DOMAIN m_framebuffers
       /\ m_framebuffers[At(callLog, "vkCmdBeginRenderPass").m] # NullFramebuffer

\* C38 (as stated): a drawFrame whose vkQueueSubmit fails requests no
\* presentation and does not advance the slot index, and no slot's fence is
\* ever unsignaled without a batch in the queue that will signal it, so that
\* every later wait on it returns.
C38_FailedSubmitSkipsFrame ==
    /\ (/\ lastOp = "drawFrame"
        /\ "vkQueueSubmit" \in Events(callLog)
        /\ At(callLog, "vkQueueSubmit").st \in SubmitErrors)
       => /\ "vkQueuePresentKHR" \notin Events(callLog)
          /\ "advance" \notin Events(callLog)
    /\ \A s \in DOMAIN m_frames :
          m_frames[s].inFlightFence = "unsignaled" => s \in Range(gpuQueue)

\* the queue carries out a batch
BatchStep ==
    sync.followed /\ gpuQueue # <<>> /\ gpuQueue' = Tail(gpuQueue) /\ callLog' = callLog

\* the presentation engine carries out a request
PresentStep ==
    /\ sync.followed
    /\ UNCHANGED <<callLog, gpuQueue>>
    /\ sync'.renderFinished # sync.renderFinished

\* a drawFrame that got to vkQueuePresentKHR
PresentingCall ==
    sync.followed /\ callLog' # callLog /\ "vkQueuePresentKHR" \in Events(callLog')

\* C37 (as stated): no batch signals a render-finished semaphore while a
\* presentation request of an earlier frame that waits on the same semaphore
\* has not been carried out.
C37_NoSignalWhilePresentPending ==
    [][BatchStep =>
        \A j \in 1..(Oldest(sync, Unfinished) - 1) :
            ~(/\ sync.inFlight[j].waits = sync.inFlight[Oldest(sync, Unfinished)].signals
              /\ ~sync.inFlight[j].shown)]_vars

\* C31: a batch is carried out only after the image-acquired semaphore of
\* its own frame has been signaled, and a presentation request only after the
\* batch of its own frame has been carried out, which signals the semaphore
\* the request waits on; a drawFrame that requests a presentation has
\* acquired, then submitted, in the same call, presents the image it
\* acquired, and its request waits on the render-finished semaphore of the
\* slot whose batch signals it.
C31_FrameOrderOnTheGpu ==
    [][/\ BatchStep => sync.inFlight[Oldest(sync, Unfinished)].ia
       /\ PresentStep =>
            /\ sync.inFlight[Oldest(sync, Unshown)].ia
            /\ sync.inFlight[Oldest(sync, Unshown)].work
            /\ sync.inFlight[Oldest(sync, Unshown)].done
       /\ PresentingCall =>
            /\ Count(callLog', "vkQueueSubmit") = 1
            /\ Count(callLog', "vkQueuePresentKHR") = 1
            /\ Index(callLog', "vkAcquireNextImageKHR") < Index(callLog', "vkQueueSubmit")
            /\ Index(callLog', "vkQueueSubmit") < Index(callLog', "vkQueuePresentKHR")
            /\ At(callLog', "vkQueuePresentKHR").m = At(callLog', "vkAcquireNextImageKHR").m
            /\ At(callLog', "vkQueueSubmit").m = m_currentFrame
            /\ \E r \in {sync'.inFlight[Len(sync'.inFlight)]} :
                 /\ r.slot = m_currentFrame
                 /\ r.signals = m_currentFrame
                 /\ r.waits = m_currentFrame
                 /\ r.image = At(callLog', "vkQueuePresentKHR").m]_vars

\* three frames have gone all the way through a ring of two slots on a
\* surface of two images: nothing is left in flight, no signal is left over
C31_Witness ==
    /\ sync.followed
    /\ m_maxFrames = 2
    /\ swapImages = 2
    /\ presented = MaxPresent
    /\ lastRes = "presented"
    /\ sync.inFlight = <<>>
    /\ \A s \in DOMAIN sync.renderFinished : sync.renderFinished[s] = 0

====
